---- MODULE Spec2Model ----
(***************************************************************************)
(* Model of the Python bindings of libgpiod: gpiod.Chip (chip.py),         *)
(* gpiod.LineRequest (line_request.py) and the helpers of _internal.py.    *)
(* The C extension gpiod._ext and the kernel behind it are the             *)
(* collaborator; the operators named Ext... model its contract.            *)
(*                                                                         *)
(* Python values are encoded as follows.                                   *)
(*   str            a sequence of one-character strings, <<"f", "0">>      *)
(*   int | str      a record [t, n, s]: I(n) is the int n, S(s) the str s  *)
(*   Optional[X]    a sequence of length 0 (None) or 1                     *)
(*   dict           a sequence of <<key, value>> pairs with distinct keys, *)
(*                  in insertion order (name_map: a function on strings)   *)
(*   an exception   a result record with ok = FALSE and err the class      *)
(*                  (OSError: its errno)                                   *)
(***************************************************************************)
EXTENDS Integers, Sequences, FiniteSets, TLC

VARIABLES chipOpen, requests, owner, kset, kval, last, kev, pc

vars == <<chipOpen, requests, owner, kset, kval, last, kev, pc>>

(***************************************************************************)
(* Bounds of the model.                                                    *)
(***************************************************************************)
\* lines of the simulated chip
NumLines == 4
\* longest str identifier handed to Chip.line_offset_from_id
MaxStrLen == 2
\* most identifiers in one request_lines config, flattened
MaxIds == 3

(***************************************************************************)
(* Python values.                                                          *)
(***************************************************************************)
I(n) == [t |-> "int", n |-> n, s |-> <<>>]
S(s) == [t |-> "str", n |-> 0, s |-> s]

None == <<>>
Some(x) == <<x>>

Ok(v) == [ok |-> TRUE, val |-> v, err |-> "", msg |-> ""]
Raise(e, m, v) == [ok |-> FALSE, val |-> v, err |-> e, msg |-> m]

Digits == {"0", "1", "9"}
Alphabet == Digits \cup {"f", "-"}

DigitVal(c) == CASE c = "0" -> 0 [] c = "1" -> 1 [] c = "9" -> 9

RECURSIVE DecimalValue(_)
DecimalValue(s) ==
    IF s = <<>> THEN 0
    ELSE 10 * DecimalValue(SubSeq(s, 1, Len(s) - 1)) + DigitVal(s[Len(s)])

AllDigits(s) == Len(s) >= 1 /\ \A i \in 1..Len(s) : s[i] \in Digits

\* int(id) of a str raises ValueError unless the text is an optional sign
\* followed by decimal digits (over Alphabet: no blanks, no underscores).
IsIntLiteral(s) ==
    \/ AllDigits(s)
    \/ Len(s) >= 2 /\ s[1] = "-" /\ AllDigits(Tail(s))

PyInt(s) ==
    IF s[1] = "-" THEN 0 - DecimalValue(Tail(s)) ELSE DecimalValue(s)

(***************************************************************************)
(* The simulated chip: lines 0 and 1 share the name "f", line 2 is named   *)
(* "0" (a name that is also a decimal literal), the others have no name.   *)
(***************************************************************************)
ChipName == <<"c", "0">>

LineName(o) ==
    CASE o = 0 -> <<"f">>
      [] o = 1 -> <<"f">>
      [] o = 2 -> <<"0">>
      [] OTHER -> <<>>

Offsets == 0..(NumLines - 1)

SetMin(X) == CHOOSE x \in X : \A y \in X : x <= y

\* _ext.Chip.line_offset_from_id: the first line carrying the name, ENOENT
\* when no line does; fault is any other failure of the lookup.
ExtLineOffsetFromId(name, fault) ==
    IF fault # "none" THEN Raise(fault, "", 0)
    ELSE IF \E o \in Offsets : LineName(o) = name
         THEN Ok(SetMin({o \in Offsets : LineName(o) = name}))
         ELSE Raise("ENOENT", "", 0)

\* _ext.Chip.get_line_name: the name of the line, None when it has none;
\* the collaborator rejects a number that is no line of the chip.
ExtGetLineName(o) ==
    IF o \notin Offsets THEN Raise("ValueError", "EINVAL", o)
    ELSE Ok(IF LineName(o) = <<>> THEN None ELSE Some(LineName(o)))

\* chip.py 153-156
\* chip.py 93-95 with the check left out
CheckClosedMutSkipped(open) == Ok(0)

\* Chip._check_closed
CheckClosed(open) ==
    IF ~open THEN Raise("ChipClosedError", "", 0) ELSE Ok(0)

\* chip.py 153-154 with the range check left out
OffsetRangeMutUnchecked(offset) == Ok(offset)

\* chip.py 153-156: only the upper end is checked
OffsetRange(offset) ==
    IF offset >= NumLines
    THEN Raise("ValueError", "out of range", offset)
    ELSE Ok(offset)

\* A plausible slip: the text is parsed as an offset before the name lookup.
LineOffsetFromIdMutIntFirst(open, id, fault) ==
    IF ~CheckClosed(open).ok THEN CheckClosed(open)
    ELSE IF id.t # "int"
         THEN IF IsIntLiteral(id.s) THEN OffsetRange(PyInt(id.s))
              ELSE ExtLineOffsetFromId(id.s, fault)
         ELSE OffsetRange(id.n)

\* chip.py 145 with the offset read from the str returned as it is
LineOffsetFromIdMutUnvalidated(open, id, fault) ==
    IF ~CheckClosed(open).ok THEN CheckClosed(open)
    ELSE IF id.t # "int"
         THEN LET ex == ExtLineOffsetFromId(id.s, fault) IN
              IF ex.ok THEN ex
              ELSE IF ex.err = "ENOENT"
                   THEN IF IsIntLiteral(id.s)
                        THEN Ok(PyInt(id.s))
                        ELSE ex
                   ELSE ex
         ELSE OffsetRange(id.n)

\* Chip.line_offset_from_id
LineOffsetFromId(open, id, fault) ==
    IF ~CheckClosed(open).ok THEN CheckClosed(open)
    ELSE IF id.t # "int"
         THEN LET ex == ExtLineOffsetFromId(id.s, fault) IN
              IF ex.ok THEN ex
              ELSE IF ex.err = "ENOENT"
                   THEN IF IsIntLiteral(id.s)
                        THEN OffsetRange(PyInt(id.s))
                        ELSE ex
                   ELSE ex
         ELSE OffsetRange(id.n)

(***************************************************************************)
(* LineSettings (line_settings.py): the fields the claims read.  The       *)
(* edge, bias, debounce and clock fields travel the same way and are left  *)
(* out.                                                                    *)
(***************************************************************************)
\* LineSettings(): the dataclass defaults
DefaultLineSettings ==
    [direction |-> "AS_IS", edge_detection |-> "NONE", drive |-> "PUSH_PULL",
     active_low |-> FALSE, output_value |-> "INACTIVE"]

\* _line_settings_to_ext: one _ext.LineSettings field per dataclass field
LineSettingsToExt(settings) ==
    [direction |-> settings.direction,
     edge_detection |-> settings.edge_detection, drive |-> settings.drive,
     active_low |-> settings.active_low,
     output_value |-> settings.output_value]

\* chip.py 317 with the entry's settings dropped
SettingsOrDefaultMutAlwaysDefault(settings) == DefaultLineSettings

\* settings or LineSettings(): a LineSettings instance is always truthy
SettingsOrDefault(settings) ==
    IF settings = None THEN DefaultLineSettings ELSE settings[1]

(***************************************************************************)
(* Dictionaries.                                                           *)
(***************************************************************************)
EmptyDict == <<>>

DictSet(d, k, v) == [x \in (DOMAIN d) \cup {k} |-> IF x = k THEN v ELSE d[x]]

(***************************************************************************)
(* _internal.config_iter: a key that is an int or a str yields itself, any *)
(* other key yields its members in order, each with the entry's settings.  *)
(* A config entry is [scalar, ids, settings]; a scalar key has one id.     *)
(***************************************************************************)
RECURSIVE config_iterMutReversed(_)
config_iterMutReversed(config) ==
    IF config = <<>> THEN <<>>
    ELSE LET e == Head(config) IN
         [i \in 1..Len(e.ids) |->
             [line |-> e.ids[Len(e.ids) + 1 - i], settings |-> e.settings]]
         \o config_iterMutReversed(Tail(config))

RECURSIVE config_iter(_)
config_iter(config) ==
    IF config = <<>> THEN <<>>
    ELSE LET e == Head(config) IN
         (IF e.scalar
          THEN <<[line |-> e.ids[1], settings |-> e.settings]>>
          ELSE [i \in 1..Len(e.ids) |->
                   [line |-> e.ids[i], settings |-> e.settings]])
         \o config_iter(Tail(config))

(***************************************************************************)
(* _ext.LineConfig: the add_line_settings calls in order and the optional  *)
(* flat output-value vector.                                               *)
(***************************************************************************)
EmptyLineConfig == [blocks |-> <<>>, output_values |-> None]

ExtAddLineSettings(line_cfg, offsets, settings) ==
    [line_cfg EXCEPT
        !.blocks = Append(@, [offsets |-> offsets, settings |-> settings])]

ExtSetOutputValues(line_cfg, values) ==
    [line_cfg EXCEPT !.output_values = Some(values)]

RECURSIVE Flatten(_)
Flatten(seqs) == IF seqs = <<>> THEN <<>> ELSE Head(seqs) \o Flatten(Tail(seqs))

\* The lines of a LineConfig in the order they were added, one settings
\* record each.
ConfigOffsets(line_cfg) ==
    Flatten([i \in 1..Len(line_cfg.blocks) |-> line_cfg.blocks[i].offsets])

ConfigSettings(line_cfg) ==
    Flatten([i \in 1..Len(line_cfg.blocks) |->
                [j \in 1..Len(line_cfg.blocks[i].offsets) |->
                    line_cfg.blocks[i].settings]])

Range(s) == {s[i] : i \in 1..Len(s)}

(***************************************************************************)
(* Chip.request_lines, chip.py 267-334.                                    *)
(***************************************************************************)
\* chip.py 272-277: the dict comprehension over output_values.items();
\* a later key that resolves to the same offset replaces the earlier value.
RECURSIVE MapOutputValues(_, _, _)
MapOutputValues(open, output_values, mapped) ==
    IF output_values = <<>> THEN [res |-> Ok(0), mapped |-> mapped]
    ELSE LET r == LineOffsetFromId(open, Head(output_values).line, "none") IN
         IF ~r.ok THEN [res |-> r, mapped |-> mapped]
         ELSE MapOutputValues(open, Tail(output_values),
                              DictSet(mapped, r.val, Head(output_values).value))

\* chip.py 289
OffsetRepeatsMutNever(offset, seen_offsets) == FALSE

OffsetRepeats(offset, seen_offsets) == offset \in seen_offsets

\* chip.py 299-302
\* chip.py 299 with the values stored whether or not there is a mapping
HasGlobalOutputValuesMutAlways(mapped) == TRUE

\* chip.py 299: if mapped_output_values (None and {} are both falsy)
HasGlobalOutputValues(mapped) == mapped # EmptyDict

GlobalOutputValueMutActive(mapped, offset) ==
    IF offset \in DOMAIN mapped THEN mapped[offset] ELSE "ACTIVE"

GlobalOutputValue(mapped, offset) ==
    IF offset \in DOMAIN mapped THEN mapped[offset] ELSE "INACTIVE"

\* chip.py 304-314 with a name taken from an offset replacing the entry
NameMapUpdateMutLastWins(name_map, line, offset, name) ==
    IF line.t = "str" THEN DictSet(name_map, line.s, offset)
    ELSE IF name # None THEN DictSet(name_map, name[1], offset) ELSE name_map

\* chip.py 304-314 with a requested name not replacing an entry
NameMapUpdateMutKeep(name_map, line, offset, name) ==
    IF line.t = "str"
    THEN IF line.s \in DOMAIN name_map THEN name_map
         ELSE DictSet(name_map, line.s, offset)
    ELSE IF name # None /\ name[1] \notin DOMAIN name_map
         THEN DictSet(name_map, name[1], offset)
         ELSE name_map

\* chip.py 304-306 with a line requested by name left out of the name map
NameMapUpdateMutUnbound(name_map, line, offset, name) ==
    IF line.t = "str" THEN name_map
    ELSE IF name # None /\ name[1] \notin DOMAIN name_map
         THEN DictSet(name_map, name[1], offset)
         ELSE name_map

\* chip.py 304-314; name is the result of get_line_name for an int line
NameMapUpdate(name_map, line, offset, name) ==
    IF line.t = "str" THEN DictSet(name_map, line.s, offset)
    ELSE IF name # None /\ name[1] \notin DOMAIN name_map
         THEN DictSet(name_map, name[1], offset)
         ELSE name_map

\* The state of the loop of chip.py 279-282 before its first iteration.
LoopStart ==
    [res |-> Ok(0), name_map |-> EmptyDict, requested_lines |-> <<>>,
     global_output_values |-> <<>>, seen_offsets |-> {},
     line_cfg |-> EmptyLineConfig]

\* chip.py 284-318: one iteration of the loop over config_iter(config).
RequestLinesIteration(open, acc, item, mapped) ==
    LET r == LineOffsetFromId(open, item.line, "none") IN
    IF ~r.ok THEN [acc EXCEPT !.res = r]
    ELSE IF OffsetRepeats(r.val, acc.seen_offsets)
    THEN [acc EXCEPT !.res = Raise("ValueError", "repeats", r.val)]
    ELSE LET offset == r.val
             name == IF item.line.t = "str" THEN Ok(None)
                     ELSE ExtGetLineName(offset)
         IN  IF ~name.ok THEN [acc EXCEPT !.res = name]
             ELSE [res |-> acc.res,
                   name_map |->
                       NameMapUpdate(acc.name_map, item.line, offset, name.val),
                   requested_lines |-> Append(acc.requested_lines, item.line),
                   global_output_values |->
                       IF HasGlobalOutputValues(mapped)
                       THEN Append(acc.global_output_values,
                                   GlobalOutputValue(mapped, offset))
                       ELSE acc.global_output_values,
                   seen_offsets |-> acc.seen_offsets \cup {offset},
                   line_cfg |->
                       ExtAddLineSettings(acc.line_cfg, <<offset>>,
                           LineSettingsToExt(SettingsOrDefault(item.settings)))]

RECURSIVE RequestLinesLoop(_, _, _, _)
RequestLinesLoop(open, acc, items, mapped) ==
    IF items = <<>> \/ ~acc.res.ok THEN acc
    ELSE RequestLinesLoop(open,
                          RequestLinesIteration(open, acc, Head(items), mapped),
                          Tail(items), mapped)

\* chip.py 320 preceded by a check that every key of output_values is one
\* of the requested offsets
BuildLineConfigMutStrictKeys(open, config, output_values) ==
    IF ~CheckClosed(open).ok THEN [LoopStart EXCEPT !.res = CheckClosed(open)]
    ELSE LET m == IF output_values # <<>>
                  THEN MapOutputValues(open, output_values, EmptyDict)
                  ELSE [res |-> Ok(0), mapped |-> EmptyDict]
         IN  IF ~m.res.ok THEN [LoopStart EXCEPT !.res = m.res]
             ELSE LET acc == RequestLinesLoop(open, LoopStart,
                                              config_iter(config), m.mapped)
                  IN  IF acc.res.ok /\ \E o \in DOMAIN m.mapped :
                                           o \notin acc.seen_offsets
                      THEN [acc EXCEPT !.res =
                               Raise("ValueError", "not requested", 0)]
                      ELSE IF acc.res.ok /\ Len(acc.global_output_values) # 0
                      THEN [acc EXCEPT !.line_cfg =
                               ExtSetOutputValues(@, acc.global_output_values)]
                      ELSE acc

\* chip.py 267-321: everything before the collaborator's request_lines.
\* The result is the loop state, with line_cfg as handed to the collaborator.
BuildLineConfig(open, config, output_values) ==
    IF ~CheckClosed(open).ok THEN [LoopStart EXCEPT !.res = CheckClosed(open)]
    ELSE LET m == IF output_values # <<>>
                  THEN MapOutputValues(open, output_values, EmptyDict)
                  ELSE [res |-> Ok(0), mapped |-> EmptyDict]
         IN  IF ~m.res.ok THEN [LoopStart EXCEPT !.res = m.res]
             ELSE LET acc == RequestLinesLoop(open, LoopStart,
                                              config_iter(config), m.mapped)
                  IN  IF acc.res.ok /\ Len(acc.global_output_values) # 0
                      THEN [acc EXCEPT !.line_cfg =
                               ExtSetOutputValues(@, acc.global_output_values)]
                      ELSE acc

(***************************************************************************)
(* The collaborator's side of a request: owner[o] is the LineRequest that  *)
(* holds line o (0: none), kset[o] the settings last applied to it and     *)
(* kval[o] its value.                                                      *)
(***************************************************************************)
\* _ext.Chip.request_lines: refused without lines, for a number that is no
\* line of the chip, for edge detection on an output, and when a line is
\* held by a live request.
ExtRequestLines(line_cfg) ==
    LET offs == ConfigOffsets(line_cfg) IN
    IF offs = <<>> THEN Raise("ValueError", "EINVAL", 0)
    ELSE IF \E i \in 1..Len(offs) : offs[i] \notin Offsets
    THEN Raise("ValueError", "EINVAL", 0)
    ELSE IF \E i \in 1..Len(offs) :
               /\ ConfigSettings(line_cfg)[i].direction = "OUTPUT"
               /\ ConfigSettings(line_cfg)[i].edge_detection # "NONE"
    THEN Raise("ValueError", "EINVAL", 0)
    ELSE IF \E i \in 1..Len(offs) : owner[offs[i]] # 0
    THEN Raise("EBUSY", "", 0)
    ELSE Ok(0)

\* The position of line o in the config, 0 when it is not in it.
IndexOf(seq, x) ==
    IF \E i \in 1..Len(seq) : seq[i] = x
    THEN SetMin({i \in 1..Len(seq) : seq[i] = x})
    ELSE 0

\* The value an output line is driven to: entry i of the flat vector when
\* the config has one, the line's own output_value otherwise.
ExtOutputValue(line_cfg, i) ==
    IF line_cfg.output_values # None /\ i <= Len(line_cfg.output_values[1])
    THEN line_cfg.output_values[1][i]
    ELSE ConfigSettings(line_cfg)[i].output_value

\* The settings and values of the lines after the collaborator applied
\* line_cfg (at request and at reconfigure time alike).
ExtAppliedSettings(line_cfg) ==
    [o \in Offsets |->
        LET i == IndexOf(ConfigOffsets(line_cfg), o) IN
        IF i = 0 THEN kset[o] ELSE ConfigSettings(line_cfg)[i]]

ExtAppliedValues(line_cfg) ==
    [o \in Offsets |->
        LET i == IndexOf(ConfigOffsets(line_cfg), o) IN
        IF i # 0 /\ ConfigSettings(line_cfg)[i].direction = "OUTPUT"
        THEN ExtOutputValue(line_cfg, i)
        ELSE kval[o]]

\* The events a queue of the collaborator holds, and the edges detected on
\* the lines of one request.
MaxEvents == 3

Min(a, b) == IF a <= b THEN a ELSE b

\* The events of the collaborator.  watched: the lines under
\* watch_line_info; info: the info events queued on the chip; lseq[o]: the
\* edge events of line o since it was requested; req[r], for request r:
\* gseq the edge events so far, queue the events not yet read, log the
\* offset and type of every edge detected, in order of occurrence.
NoEvents ==
    [watched |-> {}, info |-> 0, lseq |-> [o \in Offsets |-> 0], req |-> <<>>]

\* A status change of watched lines queues one info event per line; the
\* queue is bounded.
ExtInfoEvents(k, offsets) ==
    [k EXCEPT !.info =
        Min(@ + Cardinality(k.watched \cap Range(offsets)), MaxEvents)]

\* A new request starts with no edge event and its lines count from zero.
ExtRequested(k, offsets) ==
    [ExtInfoEvents(k, offsets) EXCEPT
        !.req = Append(@, [gseq |-> 0, queue |-> <<>>, log |-> <<>>]),
        !.lseq = [o \in Offsets |->
                     IF o \in Range(offsets) THEN 0 ELSE @[o]]]

(***************************************************************************)
(* The calls in progress: pc[t] is the position of caller t inside a call  *)
(* that takes more than one step, Idle between calls.                      *)
(***************************************************************************)
Threads == {1, 2}

Idle ==
    [op |-> "idle", rid |-> 0, stage |-> "idle", arg |-> <<>>, left |-> 0,
     waited |-> 0, alone |-> TRUE, stale |-> FALSE]

(***************************************************************************)
(* Waiting, _internal.py poll_fd.  A duration is a number of ticks of the  *)
(* model's clock, given as a float of seconds or as a timedelta; the       *)
(* descriptor of the chip is 0, that of request r is r.                    *)
(***************************************************************************)
\* The longest finite timeout, in ticks.
MaxWait == 2

Seconds(n) == Some([t |-> "float", v |-> n])

TimeDelta(n) == Some([t |-> "timedelta", v |-> n])

\* _internal.py 19-23: sec, None or the duration; a timedelta gives its
\* total_seconds()
PollFdSeconds(timeout) ==
    IF timeout = None THEN None
    ELSE IF timeout[1].t = "timedelta" THEN Some(timeout[1].v)
    ELSE Some(timeout[1].v)

\* A descriptor is readable when an event is queued on it: an info event
\* on the chip, an edge event on a request.
ExtReadable(fd) ==
    IF fd = 0 THEN kev.info > 0 ELSE kev.req[fd].queue # <<>>

\* select([fd], [], [], sec) returns once fd is readable or no time is left
\* (left counts down from sec, and is -1 for None), with the readable
\* descriptors.
ExtSelectReturns(fd, left) == ExtReadable(fd) \/ left = 0

ExtSelect(fd) == IF ExtReadable(fd) THEN {fd} ELSE {}

\* _internal.py 26 with True returned also on a timeout
PollFdResultMutAlways(fd, readable) == TRUE

\* _internal.py 26: True if fd in readable else False
PollFdResult(fd, readable) == fd \in readable

(***************************************************************************)
(* The record of the last call: its arguments and its outcome.             *)
(***************************************************************************)
NoCall ==
    [op |-> "none", rid |-> 0, id |-> I(0), fault |-> "none", ids |-> <<>>,
     config |-> <<>>, output_values |-> <<>>, values |-> <<>>,
     ok |-> TRUE, err |-> "", msg |-> "", num |-> 0, rvals |-> <<>>,
     line_cfg |-> EmptyLineConfig, submitted |-> FALSE, warnings |-> <<>>,
     tmp_open |-> FALSE, no_arg |-> FALSE, stale |-> FALSE, alone |-> TRUE,
     events |-> <<>>, ready |-> FALSE, timeout |-> <<>>, waited |-> 0]

Outcome(call, res) ==
    [call EXCEPT !.ok = res.ok, !.err = res.err, !.msg = res.msg,
                 !.num = IF res.ok THEN 0 ELSE res.val]

Init ==
    /\ chipOpen = TRUE
    /\ requests = <<>>
    /\ owner = [o \in Offsets |-> 0]
    /\ kset = [o \in Offsets |-> DefaultLineSettings]
    /\ kval = [o \in Offsets |-> "INACTIVE"]
    /\ last = NoCall
    /\ kev = NoEvents
    /\ pc = [t \in Threads |-> Idle]

(***************************************************************************)
(* Chip operations.                                                        *)
(***************************************************************************)
\* Chip.line_offset_from_id(id)
LineOffsetFromIdCall(id, fault) ==
    LET r == LineOffsetFromId(chipOpen, id, fault) IN
    /\ last' = [Outcome([NoCall EXCEPT !.op = "line_offset_from_id",
                                       !.id = id, !.fault = fault,
                                       !.submitted = CheckClosed(chipOpen).ok],
                        r)
                    EXCEPT !.num = r.val]
    /\ UNCHANGED <<chipOpen, requests, owner, kset, kval, kev, pc>>

\* Chip.close()
ChipClose ==
    /\ IF CheckClosed(chipOpen).ok
       THEN /\ chipOpen' = FALSE
            /\ last' = [NoCall EXCEPT !.op = "close", !.submitted = TRUE]
       ELSE /\ chipOpen' = chipOpen
            /\ last' = Outcome([NoCall EXCEPT !.op = "close"],
                               CheckClosed(chipOpen))
    /\ UNCHANGED <<requests, owner, kset, kval, kev, pc>>

\* The Chip methods that check the chip and then ask the collaborator
\* without an argument of their own: __enter__, get_info, wait_info_event(0)
\* (ready: an info event is queued), fileno and the properties path and fd.
\* num is the int result.
ChipReadOps ==
    {"__enter__", "get_info", "wait_info_event", "fileno", "path", "fd"}

ChipRead(op) ==
    \E c \in {CheckClosed(chipOpen)} :
    LET call == [NoCall EXCEPT !.op = op, !.submitted = c.ok] IN
    /\ last' = IF ~c.ok THEN Outcome(call, c)
               ELSE [call EXCEPT
                       !.num = IF op = "get_info" THEN NumLines ELSE 0,
                       !.timeout = IF op = "wait_info_event" THEN Seconds(0)
                                   ELSE None,
                       !.ready = (op = "wait_info_event" /\ kev.info > 0)]
    /\ UNCHANGED <<chipOpen, requests, owner, kset, kval, kev, pc>>

\* _ext.Chip.get_line_info, watch_line_info and unwatch_line_info: refused
\* for a number that is no line of the chip, for the watch of a line that is
\* watched and for the unwatch of a line that is not.
ExtLineInfo(op, offset) ==
    IF offset \notin Offsets THEN Raise("ValueError", "EINVAL", 0)
    ELSE IF op = "watch_line_info" /\ offset \in kev.watched
    THEN Raise("EBUSY", "", 0)
    ELSE IF op = "unwatch_line_info" /\ offset \notin kev.watched
    THEN Raise("EBUSY", "", 0)
    ELSE Ok(0)

\* Chip.get_line_info, watch_line_info and unwatch_line_info: the check,
\* the resolution of the line, then the collaborator.
ChipLineOps == {"get_line_info", "watch_line_info", "unwatch_line_info"}

ChipLineInfo(op, line) ==
    \E c \in {CheckClosed(chipOpen)} :
    \E r \in {IF ~c.ok THEN c ELSE LineOffsetFromId(chipOpen, line, "none")} :
    \E x \in {IF ~r.ok THEN r ELSE ExtLineInfo(op, r.val)} :
    /\ last' = [Outcome([NoCall EXCEPT !.op = op, !.id = line,
                                       !.submitted = c.ok], x)
                    EXCEPT !.num = r.val]
    /\ kev' = IF ~x.ok THEN kev
              ELSE [kev EXCEPT !.watched =
                       CASE op = "watch_line_info" -> @ \cup {r.val}
                         [] op = "unwatch_line_info" -> @ \ {r.val}
                         [] OTHER -> @]
    /\ UNCHANGED <<chipOpen, requests, owner, kset, kval, pc>>

\* Chip.read_info_event(): on an open chip the collaborator's read blocks
\* until an info event is queued and takes one; on a closed chip the call
\* raises.
ChipReadInfoEvent ==
    \E c \in {CheckClosed(chipOpen)} :
    LET call == [NoCall EXCEPT !.op = "read_info_event"] IN
    IF ~c.ok
    THEN /\ last' = Outcome(call, c)
         /\ UNCHANGED <<chipOpen, requests, owner, kset, kval, kev, pc>>
    ELSE /\ kev.info > 0
         /\ last' = [call EXCEPT !.submitted = TRUE]
         /\ kev' = [kev EXCEPT !.info = @ - 1]
         /\ UNCHANGED <<chipOpen, requests, owner, kset, kval, pc>>

\* Chip.request_lines(config, output_values=output_values)
RequestLines(config, output_values) ==
    \E b \in {BuildLineConfig(chipOpen, config, output_values)} :
    \E x \in {IF b.res.ok THEN ExtRequestLines(b.line_cfg) ELSE b.res} :
    LET call == [NoCall EXCEPT !.op = "request_lines", !.config = config,
                               !.output_values = output_values,
                               !.line_cfg = b.line_cfg,
                               !.submitted = b.res.ok]
    IN  IF ~x.ok
        THEN /\ last' = Outcome(call, x)
             /\ UNCHANGED <<chipOpen, requests, owner, kset, kval, kev, pc>>
        ELSE /\ requests' = Append(requests,
                   [live |-> TRUE,
                    chip_name |-> ChipName,
                    offsets |-> ConfigOffsets(b.line_cfg),
                    name_map |-> b.name_map,
                    lines |-> b.requested_lines])
             /\ owner' = [o \in Offsets |->
                   IF o \in Range(ConfigOffsets(b.line_cfg))
                   THEN Len(requests) + 1 ELSE owner[o]]
             /\ kset' = ExtAppliedSettings(b.line_cfg)
             /\ kval' = ExtAppliedValues(b.line_cfg)
             /\ last' = [call EXCEPT !.rid = Len(requests) + 1]
             /\ kev' = ExtRequested(kev, ConfigOffsets(b.line_cfg))
             /\ UNCHANGED <<chipOpen, pc>>

\* Chip(path): the collaborator opens the device, or fails on a path that
\* is no GPIO chip.
ChipInit(path_ok) ==
    IF path_ok THEN Ok(0) ELSE Raise("ENOENT", "", 0)

\* __init__.py 118 without the with statement: the chip is closed only
\* after a request that succeeded
ModuleChipExitMutLeak(opened, body) ==
    IF opened /\ body.ok THEN FALSE ELSE opened

\* Whether the chip of `with Chip(path) as chip:` is open once the
\* statement is left: Chip.__exit__ runs on return and on an exception
\* alike and closes the chip; a chip that failed to open never was.
ModuleChipExit(opened, body) ==
    IF opened THEN FALSE ELSE opened

\* gpiod.request_lines(path, config, output_values=output_values): a chip
\* of its own on the same device, open for the time of the call.
ModuleRequestLines(path_ok, config, output_values) ==
    \E i \in {ChipInit(path_ok)} :
    \E b \in {IF i.ok THEN BuildLineConfig(TRUE, config, output_values)
               ELSE [LoopStart EXCEPT !.res = i]} :
    \E x \in {IF b.res.ok THEN ExtRequestLines(b.line_cfg) ELSE b.res} :
    LET call == [NoCall EXCEPT !.op = "gpiod.request_lines",
                               !.config = config,
                               !.output_values = output_values,
                               !.line_cfg = b.line_cfg,
                               !.submitted = b.res.ok,
                               !.tmp_open = ModuleChipExit(i.ok, x)]
    IN  IF ~x.ok
        THEN /\ last' = Outcome(call, x)
             /\ UNCHANGED <<chipOpen, requests, owner, kset, kval, kev, pc>>
        ELSE /\ requests' = Append(requests,
                   [live |-> TRUE,
                    chip_name |-> ChipName,
                    offsets |-> ConfigOffsets(b.line_cfg),
                    name_map |-> b.name_map,
                    lines |-> b.requested_lines])
             /\ owner' = [o \in Offsets |->
                   IF o \in Range(ConfigOffsets(b.line_cfg))
                   THEN Len(requests) + 1 ELSE owner[o]]
             /\ kset' = ExtAppliedSettings(b.line_cfg)
             /\ kval' = ExtAppliedValues(b.line_cfg)
             /\ last' = [call EXCEPT !.rid = Len(requests) + 1]
             /\ kev' = ExtRequested(kev, ConfigOffsets(b.line_cfg))
             /\ UNCHANGED <<chipOpen, pc>>

(***************************************************************************)
(* LineRequest operations, line_request.py.  r is the index of the         *)
(* LineRequest object in requests; live is (self._req is not None).        *)
(***************************************************************************)
\* LineRequest._check_released with the test inverted
CheckReleasedMutInverted(req) ==
    IF req.live THEN Raise("RequestReleasedError", "", 0) ELSE Ok(0)

\* line_request.py 69-71 with the request depending on its chip being open
CheckReleasedMutNeedsChip(req) ==
    IF ~req.live \/ ~chipOpen
    THEN Raise("RequestReleasedError", "", 0) ELSE Ok(0)

\* line_request.py 69-71 with the check never raising
CheckReleasedMutNever(req) == Ok(0)

\* LineRequest._check_released
CheckReleased(req) ==
    IF ~req.live THEN Raise("RequestReleasedError", "", 0) ELSE Ok(0)

\* line_request.py 99-101 with a name the request does not know looked up
\* on the chip
LineToOffsetMutChipLookup(req, line) ==
    IF line.t = "int" THEN Ok(line.n)
    ELSE IF line.s \in DOMAIN req.name_map THEN Ok(req.name_map[line.s])
    ELSE IF ExtLineOffsetFromId(line.s, "none").ok
    THEN ExtLineOffsetFromId(line.s, "none")
    ELSE Raise("ValueError", "unknown line name", 0)

\* LineRequest._line_to_offset
LineToOffset(req, line) ==
    IF line.t = "int" THEN Ok(line.n)
    ELSE IF line.s \notin DOMAIN req.name_map
         THEN Raise("ValueError", "unknown line name", 0)
         ELSE Ok(req.name_map[line.s])

\* line_request.py 123 with the offsets collected back to front
RECURSIVE LinesToOffsetsMutReversed(_, _)
LinesToOffsetsMutReversed(req, lines) ==
    IF lines = <<>> THEN [res |-> Ok(0), offsets |-> <<>>]
    ELSE LET r == LineToOffset(req, Head(lines)) IN
         IF ~r.ok THEN [res |-> r, offsets |-> <<>>]
         ELSE LET rest == LinesToOffsetsMutReversed(req, Tail(lines)) IN
              IF ~rest.res.ok THEN rest
              ELSE [res |-> Ok(0), offsets |-> rest.offsets \o <<r.val>>]

\* [self._line_to_offset(line) for line in lines]: the offsets, or the
\* first failure.
RECURSIVE LinesToOffsets(_, _)
LinesToOffsets(req, lines) ==
    IF lines = <<>> THEN [res |-> Ok(0), offsets |-> <<>>]
    ELSE LET r == LineToOffset(req, Head(lines)) IN
         IF ~r.ok THEN [res |-> r, offsets |-> <<>>]
         ELSE LET rest == LinesToOffsets(req, Tail(lines)) IN
              IF ~rest.res.ok THEN rest
              ELSE [res |-> Ok(0), offsets |-> <<r.val>> \o rest.offsets]

\* The collaborator refuses an offset that is not part of the request.
ExtKnowsOffsets(req, offsets) ==
    IF \A o \in offsets : o \in Range(req.offsets) THEN Ok(0)
    ELSE Raise("ValueError", "EINVAL", 0)

\* line_request.py 78-79 with only the handle dropped: the collaborator's
\* request is never released
ReleaseMutHandleOnly(r, op) ==
    \E c \in {CheckReleased(requests[r])} :
    LET call == [NoCall EXCEPT !.op = op, !.rid = r] IN
    IF ~c.ok
    THEN /\ last' = Outcome(call, c)
         /\ UNCHANGED <<chipOpen, requests, owner, kset, kval, kev, pc>>
    ELSE /\ requests' = [requests EXCEPT ![r].live = FALSE]
         /\ last' = call
         /\ UNCHANGED <<chipOpen, owner, kset, kval, kev, pc>>

\* LineRequest.release() and LineRequest.__exit__()
Release(r, op) ==
    \E c \in {CheckReleased(requests[r])} :
    LET call == [NoCall EXCEPT !.op = op, !.rid = r] IN
    IF ~c.ok
    THEN /\ last' = Outcome(call, c)
         /\ UNCHANGED <<chipOpen, requests, owner, kset, kval, kev, pc>>
    ELSE /\ requests' = [requests EXCEPT ![r].live = FALSE]
         /\ owner' = [o \in Offsets |-> IF owner[o] = r THEN 0 ELSE owner[o]]
         /\ last' = call
         /\ kev' = ExtInfoEvents(kev, requests[r].offsets)
         /\ UNCHANGED <<chipOpen, kset, kval, pc>>

\* line_request.py 121 with only a missing argument standing for all lines
LinesOrAllMutNoneOnly(req, lines) ==
    IF lines = None THEN req.lines ELSE lines[1]

\* lines or self._lines: None and the empty list are both falsy
LinesOrAll(req, lines) ==
    IF lines = None \/ lines[1] = <<>> THEN req.lines ELSE lines[1]

\* LineRequest.get_values(lines); lines is None or Some(list).
\* get_value(line) is get_values([line])[0].
GetValues(r, op, lines) ==
    \E c \in {CheckReleased(requests[r])} :
    \E m \in {LinesToOffsets(requests[r], LinesOrAll(requests[r], lines))} :
    \E x \in {IF ~c.ok THEN c
               ELSE IF ~m.res.ok THEN m.res
               ELSE ExtKnowsOffsets(requests[r], Range(m.offsets))} :
    LET call == [NoCall EXCEPT !.op = op, !.rid = r,
                               !.ids = IF lines = None THEN <<>> ELSE lines[1],
                               !.no_arg = (lines = None),
                               !.submitted = c.ok /\ m.res.ok]
    IN  /\ last' = IF ~x.ok THEN Outcome(call, x)
                   ELSE [call EXCEPT !.rvals =
                            [i \in 1..Len(m.offsets) |-> kval[m.offsets[i]]]]
        /\ UNCHANGED <<chipOpen, requests, owner, kset, kval, kev, pc>>

\* line_request.py 152 with a key that does not resolve skipped
RECURSIVE MapValuesMutSkipUnknown(_, _, _)
MapValuesMutSkipUnknown(req, values, mapped) ==
    IF values = <<>> THEN [res |-> Ok(0), mapped |-> mapped]
    ELSE LET r == LineToOffset(req, Head(values).line) IN
         IF ~r.ok THEN MapValuesMutSkipUnknown(req, Tail(values), mapped)
         ELSE MapValuesMutSkipUnknown(req, Tail(values),
                        DictSet(mapped, r.val, Head(values).value))

\* {self._line_to_offset(line): value for line, value in values.items()}
RECURSIVE MapValues(_, _, _)
MapValues(req, values, mapped) ==
    IF values = <<>> THEN [res |-> Ok(0), mapped |-> mapped]
    ELSE LET r == LineToOffset(req, Head(values).line) IN
         IF ~r.ok THEN [res |-> r, mapped |-> mapped]
         ELSE MapValues(req, Tail(values),
                        DictSet(mapped, r.val, Head(values).value))

\* The collaborator writes the whole batch or nothing: it refuses an offset
\* outside the request and a line that is not an output.
ExtSetValues(req, mapped) ==
    IF \E o \in DOMAIN mapped : o \notin Range(req.offsets)
    THEN Raise("ValueError", "EINVAL", 0)
    ELSE IF \E o \in DOMAIN mapped : kset[o].direction # "OUTPUT"
    THEN Raise("EPERM", "", 0)
    ELSE Ok(0)

\* LineRequest.set_values(values); set_value(line, value) is
\* set_values({line: value}).
SetValues(r, op, values) ==
    \E c \in {CheckReleased(requests[r])} :
    \E m \in {MapValues(requests[r], values, EmptyDict)} :
    \E x \in {IF ~c.ok THEN c
               ELSE IF ~m.res.ok THEN m.res
               ELSE ExtSetValues(requests[r], m.mapped)} :
    LET call == [NoCall EXCEPT !.op = op, !.rid = r, !.values = values,
                               !.submitted = c.ok /\ m.res.ok]
    IN  /\ last' = Outcome(call, x)
        /\ kval' = IF ~x.ok THEN kval
                   ELSE [o \in Offsets |->
                            IF o \in DOMAIN m.mapped THEN m.mapped[o] ELSE kval[o]]
        /\ UNCHANGED <<chipOpen, requests, owner, kset, kev, pc>>

\* line_request.py 179 with the first settings given for an offset kept
RECURSIVE LineSettingsOfMutFirstWins(_, _, _)
LineSettingsOfMutFirstWins(req, items, line_settings) ==
    IF items = <<>> THEN [res |-> Ok(0), line_settings |-> line_settings]
    ELSE LET r == LineToOffset(req, Head(items).line) IN
         IF ~r.ok THEN [res |-> r, line_settings |-> line_settings]
         ELSE LineSettingsOfMutFirstWins(req, Tail(items),
                  IF r.val \in DOMAIN line_settings THEN line_settings
                  ELSE DictSet(line_settings, r.val, Head(items).settings))

\* line_request.py 177-179: line_settings[offset] = settings for every
\* (line, settings) of config_iter(config); the first unknown name raises.
RECURSIVE LineSettingsOf(_, _, _)
LineSettingsOf(req, items, line_settings) ==
    IF items = <<>> THEN [res |-> Ok(0), line_settings |-> line_settings]
    ELSE LET r == LineToOffset(req, Head(items).line) IN
         IF ~r.ok THEN [res |-> r, line_settings |-> line_settings]
         ELSE LineSettingsOf(req, Tail(items),
                             DictSet(line_settings, r.val, Head(items).settings))

\* line_request.py 182: line_settings.get(offset) or LineSettings()
ReconfigureSettings(line_settings, offset) ==
    IF offset \in DOMAIN line_settings
    THEN SettingsOrDefault(line_settings[offset])
    ELSE DefaultLineSettings

\* line_request.py 181-183 with a block only for the offsets the config
\* names: an omitted line gets no block
ReconfigureLineConfigMutNamedOnly(req, line_settings) ==
    [blocks |-> LET named == SelectSeq(req.offsets,
                                       LAMBDA o : o \in DOMAIN line_settings)
                IN  [i \in 1..Len(named) |->
                        [offsets |-> <<named[i]>>,
                         settings |-> LineSettingsToExt(
                             ReconfigureSettings(line_settings, named[i]))]],
     output_values |-> None]

\* line_request.py 181-183: one block per requested offset, in order
ReconfigureLineConfig(req, line_settings) ==
    [blocks |-> [i \in 1..Len(req.offsets) |->
                    [offsets |-> <<req.offsets[i]>>,
                     settings |-> LineSettingsToExt(
                         ReconfigureSettings(line_settings, req.offsets[i]))]],
     output_values |-> None]

\* What the collaborator makes of a submitted reconfiguration.  The kernel
\* under the extension either applies every block as submitted, or (newer
\* kernels) skips the blocks whose direction is AS_IS.
ExtReconfigureLines(line_cfg, skip_as_is) ==
    IF skip_as_is
    THEN [line_cfg EXCEPT !.blocks =
             SelectSeq(line_cfg.blocks,
                       LAMBDA b : b.settings.direction # "AS_IS")]
    ELSE line_cfg

\* line_request.py 172-185 with the handle's bookkeeping rebuilt from the
\* config: lines becomes the identifiers of the config
ReconfigureLinesMutRebuilds(r, config) ==
    \E c \in {CheckReleased(requests[r])} :
    \E m \in {LineSettingsOf(requests[r], config_iter(config), EmptyDict)} :
    \E x \in {IF ~c.ok THEN c ELSE m.res} :
    LET call == [NoCall EXCEPT !.op = "reconfigure_lines", !.rid = r,
                               !.config = config]
        line_cfg == ReconfigureLineConfig(requests[r], m.line_settings)
    IN  IF ~x.ok
        THEN /\ last' = Outcome(call, x)
             /\ UNCHANGED <<chipOpen, requests, owner, kset, kval, kev, pc>>
        ELSE \E skip_as_is \in BOOLEAN :
             \E applied \in {ExtReconfigureLines(line_cfg, skip_as_is)} :
             /\ last' = [call EXCEPT !.line_cfg = line_cfg, !.submitted = TRUE]
             /\ kset' = ExtAppliedSettings(applied)
             /\ kval' = ExtAppliedValues(applied)
             /\ requests' = [requests EXCEPT ![r].lines =
                    [i \in 1..Len(config_iter(config)) |->
                        config_iter(config)[i].line]]
             /\ kev' = ExtInfoEvents(kev, requests[r].offsets)
             /\ UNCHANGED <<chipOpen, owner, pc>>

\* LineRequest.reconfigure_lines(config)
ReconfigureLines(r, config) ==
    \E c \in {CheckReleased(requests[r])} :
    \E m \in {LineSettingsOf(requests[r], config_iter(config), EmptyDict)} :
    \E x \in {IF ~c.ok THEN c ELSE m.res} :
    LET call == [NoCall EXCEPT !.op = "reconfigure_lines", !.rid = r,
                               !.config = config]
        line_cfg == ReconfigureLineConfig(requests[r], m.line_settings)
    IN  IF ~x.ok
        THEN /\ last' = Outcome(call, x)
             /\ UNCHANGED <<chipOpen, requests, owner, kset, kval, kev, pc>>
        ELSE \E skip_as_is \in BOOLEAN :
             \E applied \in {ExtReconfigureLines(line_cfg, skip_as_is)} :
             /\ last' = [call EXCEPT !.line_cfg = line_cfg, !.submitted = TRUE]
             /\ kset' = ExtAppliedSettings(applied)
             /\ kval' = ExtAppliedValues(applied)
             /\ kev' = ExtInfoEvents(kev, requests[r].offsets)
             /\ UNCHANGED <<chipOpen, requests, owner, pc>>

\* The operations that check the handle and then only read it: __enter__,
\* fileno and the properties fd, chip_name, num_lines, offsets, lines.
\* num is the int result (fd and fileno: the descriptor, here r).
ReadOps ==
    {"__enter__", "fileno", "fd", "chip_name", "num_lines", "offsets", "lines"}

ReadRequest(r, op) ==
    \E c \in {CheckReleased(requests[r])} :
    LET call == [NoCall EXCEPT !.op = op, !.rid = r] IN
    /\ last' = IF ~c.ok THEN Outcome(call, c)
               ELSE [call EXCEPT
                       !.num = CASE op \in {"fd", "fileno"} -> r
                                 [] op = "num_lines" -> Len(requests[r].offsets)
                                 [] OTHER -> 0,
                       !.ids = IF op = "lines" THEN requests[r].lines
                               ELSE IF op = "offsets"
                               THEN [i \in 1..Len(requests[r].offsets) |->
                                        I(requests[r].offsets[i])]
                               ELSE <<>>]
    /\ UNCHANGED <<chipOpen, requests, owner, kset, kval, kev, pc>>

\* LineRequest.wait_edge_events(0): the descriptor of a live request is
\* readable when an edge event is queued; the call returns at once.
WaitEdgeEvents(r) ==
    \E c \in {CheckReleased(requests[r])} :
    LET call == [NoCall EXCEPT !.op = "wait_edge_events", !.rid = r,
                               !.timeout = Seconds(0)] IN
    /\ last' = IF ~c.ok THEN Outcome(call, c)
               ELSE [call EXCEPT !.ready = (kev.req[r].queue # <<>>)]
    /\ UNCHANGED <<chipOpen, requests, owner, kset, kval, kev, pc>>

\* _ext.Request.read_edge_events(max_events): the oldest queued events, at
\* most max_events of them, all of them for None; rest stays queued.
ExtReadEdgeEvents(queue, max_events) ==
    LET n == IF max_events = None THEN Len(queue)
             ELSE Min(max_events[1], Len(queue))
    IN  [events |-> SubSeq(queue, 1, n), rest |-> SubSeq(queue, n + 1, Len(queue))]

\* line_request.py 219 with the list of events returned newest first
ReadEdgeEventsMutNewestFirst(r, max_events) ==
    \E c \in {CheckReleased(requests[r])} :
    LET call == [NoCall EXCEPT !.op = "read_edge_events", !.rid = r] IN
    IF ~c.ok
    THEN /\ last' = Outcome(call, c)
         /\ UNCHANGED <<chipOpen, requests, owner, kset, kval, kev, pc>>
    ELSE \E x \in {ExtReadEdgeEvents(kev.req[r].queue, max_events)} :
         /\ kev.req[r].queue # <<>>
         /\ last' = [call EXCEPT !.events =
                        [i \in 1..Len(x.events) |->
                            x.events[Len(x.events) + 1 - i]]]
         /\ kev' = [kev EXCEPT !.req[r].queue = x.rest]
         /\ UNCHANGED <<chipOpen, requests, owner, kset, kval, pc>>

\* LineRequest.read_edge_events(max_events): on a live request the
\* collaborator's read blocks until an event is queued; on a released
\* request the call raises.
ReadEdgeEvents(r, max_events) ==
    \E c \in {CheckReleased(requests[r])} :
    LET call == [NoCall EXCEPT !.op = "read_edge_events", !.rid = r] IN
    IF ~c.ok
    THEN /\ last' = Outcome(call, c)
         /\ UNCHANGED <<chipOpen, requests, owner, kset, kval, kev, pc>>
    ELSE \E x \in {ExtReadEdgeEvents(kev.req[r].queue, max_events)} :
         /\ kev.req[r].queue # <<>>
         /\ last' = [call EXCEPT !.events = x.events]
         /\ kev' = [kev EXCEPT !.req[r].queue = x.rest]
         /\ UNCHANGED <<chipOpen, requests, owner, kset, kval, pc>>

\* The level of line o changes (the tests: gpiosim set_pull).  A line with
\* edge detection held by a request queues an event stamped with the next
\* sequence number of the request and the next of the line.
ExtEdge(o) ==
    LET v == IF kval[o] = "ACTIVE" THEN "INACTIVE" ELSE "ACTIVE"
        r == owner[o]
        detected == /\ r # 0
                    /\ kset[o].edge_detection \in
                          {"BOTH", IF v = "ACTIVE" THEN "RISING" ELSE "FALLING"}
        event == [event_type |-> IF v = "ACTIVE" THEN "RISING_EDGE"
                                 ELSE "FALLING_EDGE",
                  line_offset |-> o,
                  global_seqno |-> kev.req[r].gseq + 1,
                  line_seqno |-> kev.lseq[o] + 1]
    IN  /\ r # 0 => kset[o].direction # "OUTPUT"
        /\ detected => kev.req[r].gseq < MaxEvents
        /\ kval' = [kval EXCEPT ![o] = v]
        /\ kev' = IF ~detected THEN kev
                  ELSE [kev EXCEPT
                          !.lseq[o] = @ + 1,
                          !.req[r] = [gseq |-> @.gseq + 1,
                                      queue |-> Append(@.queue, event),
                                      log |-> Append(@.log,
                                          [line_offset |-> o,
                                           event_type |-> event.event_type])]]
        /\ UNCHANGED <<chipOpen, requests, owner, kset, last, pc>>

\* poll_fd(self.fd, timeout) up to the select call, in which caller t
\* blocks.
PollFdBegin(t, op, fd, timeout) ==
    pc' = [pc EXCEPT ![t] =
              [Idle EXCEPT !.op = op, !.rid = fd, !.stage = "select",
                           !.arg = timeout,
                           !.left = IF PollFdSeconds(timeout) = None
                                    THEN 0 - 1
                                    ELSE PollFdSeconds(timeout)[1]]]

\* LineRequest.wait_edge_events(timeout): the check, then poll_fd
WaitEdgeEventsBegin(t, r, timeout) ==
    /\ pc[t].stage = "idle"
    /\ \E c \in {CheckReleased(requests[r])} :
          IF ~c.ok
          THEN /\ last' = Outcome([NoCall EXCEPT !.op = "wait_edge_events",
                                      !.rid = r, !.timeout = timeout], c)
               /\ UNCHANGED pc
          ELSE /\ PollFdBegin(t, "wait_edge_events", r, timeout)
               /\ UNCHANGED last
    /\ UNCHANGED <<chipOpen, requests, owner, kset, kval, kev>>

\* Chip.wait_info_event(timeout): the check, then poll_fd
WaitInfoEventBegin(t, timeout) ==
    /\ pc[t].stage = "idle"
    /\ \E c \in {CheckClosed(chipOpen)} :
          IF ~c.ok
          THEN /\ last' = Outcome([NoCall EXCEPT !.op = "wait_info_event",
                                      !.timeout = timeout], c)
               /\ UNCHANGED pc
          ELSE /\ PollFdBegin(t, "wait_info_event", 0, timeout)
               /\ UNCHANGED last
    /\ UNCHANGED <<chipOpen, requests, owner, kset, kval, kev>>

\* select returns and poll_fd with it: the result of the wait
PollFdReturn(t) ==
    /\ pc[t].stage = "select"
    /\ ExtSelectReturns(pc[t].rid, pc[t].left)
    /\ last' = [NoCall EXCEPT !.op = pc[t].op, !.rid = pc[t].rid,
                              !.timeout = pc[t].arg, !.waited = pc[t].waited,
                              !.submitted = TRUE,
                              !.ready = PollFdResult(pc[t].rid,
                                                     ExtSelect(pc[t].rid))]
    /\ pc' = [pc EXCEPT ![t] = Idle]
    /\ UNCHANGED <<chipOpen, requests, owner, kset, kval, kev>>

\* A tick of the clock passes for the callers blocked in select; none of
\* them stays blocked once its select can return.
Tick ==
    /\ \E t \in Threads : pc[t].stage = "select" /\ pc[t].left > 0
    /\ \A t \in Threads :
          pc[t].stage = "select" => ~ExtSelectReturns(pc[t].rid, pc[t].left)
    /\ pc' = [t \in Threads |->
                 IF pc[t].stage = "select" /\ pc[t].left > 0
                 THEN [pc[t] EXCEPT !.left = @ - 1, !.waited = @ + 1]
                 ELSE pc[t]]
    /\ UNCHANGED <<chipOpen, requests, owner, kset, kval, kev, last>>

(***************************************************************************)
(* Calls on one LineRequest by callers that do not serialize them: each    *)
(* statement of release, get_values and set_values is a step of its own,   *)
(* and the steps of two callers interleave.                                *)
(***************************************************************************)
ThreadOps == {"release", "get_values", "set_values"}

\* What a call gets that reaches the collaborator's request after its
\* release.  self._req is None: the attribute lookup on None raises.
\* self._req is still set but the collaborator has released it: its contract
\* does not say; an error, the end of the process, or nothing noticed.
StaleResults(r) ==
    IF ~requests[r].live THEN {Raise("AttributeError", "", 0)}
    ELSE IF \A o \in Offsets : owner[o] # r
    THEN {Raise("OSError", "", 0), Raise("abort", "", 0), Ok(0)}
    ELSE {}

\* The first statement of the three methods: self._check_released().  The
\* call of a caller is alone while no other caller is inside a call.
CallBegin(t, r, op, arg) ==
    /\ pc[t].stage = "idle"
    /\ \E c \in {CheckReleased(requests[r])} :
          IF ~c.ok
          THEN /\ last' = Outcome([NoCall EXCEPT !.op = op, !.rid = r,
                              !.alone = \A u \in Threads \ {t} :
                                            pc[u].stage = "idle"], c)
               /\ UNCHANGED pc
          ELSE /\ pc' = [u \in Threads |->
                    IF u = t
                    THEN [Idle EXCEPT !.op = op, !.rid = r, !.arg = arg,
                             !.stage = "checked",
                             !.alone = \A v \in Threads \ {t} :
                                           pc[v].stage = "idle"]
                    ELSE IF pc[u].stage # "idle"
                    THEN [pc[u] EXCEPT !.alone = FALSE]
                    ELSE pc[u]]
               /\ UNCHANGED last
    /\ UNCHANGED <<chipOpen, requests, owner, kset, kval, kev>>

\* line_request.py 78: self._req.release()
ActRelease(t) ==
    LET r == pc[t].rid
        call == [NoCall EXCEPT !.op = "release", !.rid = r,
                               !.alone = pc[t].alone]
    IN  /\ pc[t].stage = "checked"
        /\ pc[t].op = "release"
        /\ IF StaleResults(r) # {}
           THEN \E x \in StaleResults(r) :
                /\ IF x.ok
                   THEN /\ pc' = [pc EXCEPT ![t].stage = "released",
                                             ![t].stale = TRUE]
                        /\ UNCHANGED last
                   ELSE /\ pc' = [pc EXCEPT ![t] = Idle]
                        /\ last' = [Outcome(call, x) EXCEPT !.stale = TRUE]
                /\ UNCHANGED <<owner, kev>>
           ELSE /\ owner' = [o \in Offsets |->
                                IF owner[o] = r THEN 0 ELSE owner[o]]
                /\ kev' = ExtInfoEvents(kev, requests[r].offsets)
                /\ pc' = [pc EXCEPT ![t].stage = "released"]
                /\ UNCHANGED last
        /\ UNCHANGED <<chipOpen, requests, kset, kval>>

\* line_request.py 79: self._req = None
FinishRelease(t) ==
    /\ pc[t].stage = "released"
    /\ requests' = [requests EXCEPT ![pc[t].rid].live = FALSE]
    /\ last' = [NoCall EXCEPT !.op = "release", !.rid = pc[t].rid,
                              !.alone = pc[t].alone,
                              !.stale = pc[t].stale]
    /\ pc' = [pc EXCEPT ![t] = Idle]
    /\ UNCHANGED <<chipOpen, owner, kset, kval, kev>>

\* line_request.py 121-128: the offsets, then self._req.get_values
ActGetValues(t) ==
    LET r == pc[t].rid
        lines == pc[t].arg
        call == [NoCall EXCEPT !.op = "get_values", !.rid = r,
                               !.ids = IF lines = None THEN <<>> ELSE lines[1],
                               !.no_arg = (lines = None),
                               !.alone = pc[t].alone]
    IN  /\ pc[t].stage = "checked"
        /\ pc[t].op = "get_values"
        /\ \E m \in {LinesToOffsets(requests[r], LinesOrAll(requests[r], lines))} :
           IF ~m.res.ok THEN last' = Outcome(call, m.res)
           ELSE IF StaleResults(r) # {}
           THEN \E x \in StaleResults(r) :
                   last' = [Outcome(call, x) EXCEPT !.stale = TRUE,
                               !.rvals = IF ~x.ok THEN <<>>
                                         ELSE [i \in 1..Len(m.offsets) |->
                                                  kval[m.offsets[i]]]]
           ELSE \E x \in {ExtKnowsOffsets(requests[r], Range(m.offsets))} :
                   last' = IF ~x.ok THEN Outcome(call, x)
                           ELSE [call EXCEPT !.submitted = TRUE, !.rvals =
                                    [i \in 1..Len(m.offsets) |-> kval[m.offsets[i]]]]
        /\ pc' = [pc EXCEPT ![t] = Idle]
        /\ UNCHANGED <<chipOpen, requests, owner, kset, kval, kev>>

\* line_request.py 152-154: the dict of offsets, then self._req.set_values
ActSetValues(t) ==
    LET r == pc[t].rid
        values == pc[t].arg
        call == [NoCall EXCEPT !.op = "set_values", !.rid = r,
                               !.values = values, !.alone = pc[t].alone]
    IN  /\ pc[t].stage = "checked"
        /\ pc[t].op = "set_values"
        /\ \E m \in {MapValues(requests[r], values, EmptyDict)} :
           IF ~m.res.ok
           THEN /\ last' = Outcome(call, m.res)
                /\ UNCHANGED kval
           ELSE IF StaleResults(r) # {}
           THEN /\ \E x \in StaleResults(r) :
                      last' = [Outcome(call, x) EXCEPT !.stale = TRUE]
                /\ UNCHANGED kval
           ELSE \E x \in {ExtSetValues(requests[r], m.mapped)} :
                /\ last' = [Outcome(call, x) EXCEPT !.submitted = TRUE]
                /\ kval' = IF ~x.ok THEN kval
                           ELSE [o \in Offsets |->
                                    IF o \in DOMAIN m.mapped THEN m.mapped[o]
                                    ELSE kval[o]]
        /\ pc' = [pc EXCEPT ![t] = Idle]
        /\ UNCHANGED <<chipOpen, requests, owner, kset, kev>>

(***************************************************************************)
(* Inputs.                                                                 *)
(***************************************************************************)
Strings == UNION {[1..n -> Alphabet] : n \in 1..MaxStrLen}

\* every int from -1 to one past the last line, every short str
ResolveIds == {I(n) : n \in (0 - 1)..(NumLines + 1)} \cup {S(s) : s \in Strings}

\* the lookup works, or fails for a reason other than a missing name
Faults == {"none", "EIO"}

SettingsIn ==
    [direction |-> "INPUT", edge_detection |-> "NONE", drive |-> "PUSH_PULL",
     active_low |-> FALSE, output_value |-> "INACTIVE"]

SettingsOut ==
    [direction |-> "OUTPUT", edge_detection |-> "NONE", drive |-> "OPEN_DRAIN",
     active_low |-> TRUE, output_value |-> "ACTIVE"]

\* LineSettings(edge_detection=edge) as the edge event tests request it
SettingsEdge(edge) ==
    [direction |-> "AS_IS", edge_detection |-> edge, drive |-> "PUSH_PULL",
     active_low |-> FALSE, output_value |-> "INACTIVE"]

\* Identifiers of request_lines configs: lines 0 and 1 (both named "f"),
\* the unnamed line 3, the first int past the chip, a negative int, the
\* shared name "f", a decimal str that names no line, an unknown name.
ConfigIds ==
    {I(0), I(1), I(3), I(NumLines), I(0 - 1),
     S(<<"f">>), S(<<"1">>), S(<<"f", "f">>)}

RECURSIVE Compositions(_)
Compositions(n) ==
    IF n = 0 THEN {<<>>}
    ELSE UNION {{<<k>> \o c : c \in Compositions(n - k)} : k \in 1..n}

RECURSIVE Sum(_)
Sum(s) == IF s = <<>> THEN 0 ELSE Head(s) + Sum(Tail(s))

\* The dict whose j-th key holds the next comp[j] identifiers of flat (an
\* int or str key when it holds one, a tuple otherwise), with value st[j].
MakeConfig(flat, comp, st) ==
    [j \in 1..Len(comp) |->
        [scalar |-> comp[j] = 1,
         ids |-> SubSeq(flat, Sum(SubSeq(comp, 1, j - 1)) + 1,
                        Sum(SubSeq(comp, 1, j))),
         settings |-> st[j]]]

DistinctKeys(config) ==
    \A j, k \in 1..Len(config) :
        j # k => <<config[j].scalar, config[j].ids>>
                 # <<config[k].scalar, config[k].ids>>

\* The configs of at most MaxIds identifiers, each entry with default
\* settings (None) or with output settings.
BuildSettings == {None, Some(SettingsOut)}

OV(line, value) == [line |-> line, value |-> value]

\* output_values: absent or empty, one offset, a name and the offset it
\* names, two lines, an unknown name, an offset past the chip.
BuildOutputValues ==
    {<<>>,
     <<OV(I(1), "ACTIVE")>>,
     <<OV(S(<<"f">>), "ACTIVE"), OV(I(0), "INACTIVE")>>,
     <<OV(I(3), "ACTIVE"), OV(S(<<"f">>), "ACTIVE")>>,
     <<OV(S(<<"f", "f">>), "ACTIVE")>>,
     <<OV(I(NumLines), "ACTIVE")>>}

(***************************************************************************)
(* Specifications.                                                         *)
(***************************************************************************)
\* Chip.line_offset_from_id on an open and on a closed chip.
NextResolve ==
    \/ \E id \in ResolveIds : \E fault \in Faults :
          /\ id.t = "int" => fault = "none"
          /\ LineOffsetFromIdCall(id, fault)
    \/ ChipClose

SpecResolve == Init /\ [][NextResolve]_vars

\* One Chip.request_lines call on a freshly opened chip.
NextBuild ==
    /\ last.op = "none"
    /\ \E n \in 0..MaxIds : \E flat \in [1..n -> ConfigIds] :
       \E comp \in Compositions(n) : \E st \in [1..Len(comp) -> BuildSettings] :
       \E config \in {MakeConfig(flat, comp, st)} :
       \E output_values \in BuildOutputValues :
          /\ DistinctKeys(config)
          /\ RequestLines(config, output_values)

SpecBuild == Init /\ [][NextBuild]_vars

Entry(scalar, ids, settings) ==
    [scalar |-> scalar, ids |-> ids, settings |-> settings]

\* {(1, "f"): out, 3: None}, {(0, 1): out}, {2: in} and the repeating
\* {(0, "f"): None}
LifeConfigs ==
    {<<Entry(FALSE, <<I(1), S(<<"f">>)>>, Some(SettingsOut)),
       Entry(TRUE, <<I(3)>>, None)>>,
     <<Entry(FALSE, <<I(0), I(1)>>, Some(SettingsOut))>>,
     <<Entry(TRUE, <<I(2)>>, Some(SettingsIn))>>,
     <<Entry(FALSE, <<I(0), S(<<"f">>)>>, None)>>}

LifeOutputValues == {<<>>, <<OV(I(1), "ACTIVE")>>}

\* Identifiers of reconfigure_lines configs: lines 0, 2 and 3, the name "f"
\* of lines 0 and 1, the name "0" of line 2.
ReconfigureIds == {I(0), I(2), I(3), S(<<"f">>), S(<<"0">>)}

ReconfigureSettingsChoices == {None, Some(SettingsIn)}

\* One request_lines call, then one reconfigure_lines call on the request.
NextReconfigure ==
    \/ /\ last.op = "none"
       /\ \E config \in LifeConfigs : \E output_values \in LifeOutputValues :
             RequestLines(config, output_values)
    \/ /\ last.op = "request_lines"
       /\ last.ok
       /\ \E n \in 0..MaxIds : \E flat \in [1..n -> ReconfigureIds] :
          \E comp \in Compositions(n) :
          \E st \in [1..Len(comp) -> ReconfigureSettingsChoices] :
          \E config \in {MakeConfig(flat, comp, st)} :
             /\ DistinctKeys(config)
             /\ ReconfigureLines(1, config)

SpecReconfigure == Init /\ [][NextReconfigure]_vars

\* The life of one chip: any sequence of calls on it, with at most one
\* request.
NextChip ==
    \/ ChipClose
    \/ \E op \in ChipReadOps : ChipRead(op)
    \/ \E op \in ChipLineOps : \E line \in ConfigIds : ChipLineInfo(op, line)
    \/ ChipReadInfoEvent
    \/ \E id \in ConfigIds : LineOffsetFromIdCall(id, "none")
    \/ /\ requests = <<>>
       /\ \E config \in LifeConfigs : \E output_values \in LifeOutputValues :
             RequestLines(config, output_values)

SpecChip == Init /\ [][NextChip]_vars

\* One gpiod.request_lines call, then reads of the request it returned and
\* its release.
NextModule ==
    \/ /\ last.op = "none"
       /\ \E path_ok \in BOOLEAN :
          \E n \in 0..MaxIds : \E flat \in [1..n -> ConfigIds] :
          \E comp \in Compositions(n) : \E st \in [1..Len(comp) -> BuildSettings] :
          \E config \in {MakeConfig(flat, comp, st)} :
          \E output_values \in LifeOutputValues :
             /\ DistinctKeys(config)
             /\ ModuleRequestLines(path_ok, config, output_values)
    \/ \E r \in 1..Len(requests) : GetValues(r, "get_values", None)
    \/ \E r \in 1..Len(requests) : Release(r, "release")

SpecModule == Init /\ [][NextModule]_vars

\* The number of requests made on the chip by its callers.
MaxRequests == 3

\* Several callers of one chip: request_lines and release calls in any
\* order, the requests overlapping or not.
NextShare ==
    \/ /\ Len(requests) < MaxRequests
       /\ \E config \in LifeConfigs : \E output_values \in LifeOutputValues :
             RequestLines(config, output_values)
    \/ \E r \in 1..Len(requests) : Release(r, "release")

SpecShare == Init /\ [][NextShare]_vars

\* One request and two callers that use it without serializing their
\* calls: release, get_values() and set_values({1: ACTIVE}).
ThreadArgs(op) ==
    CASE op = "get_values" -> None
      [] op = "set_values" -> <<OV(I(1), "ACTIVE")>>
      [] OTHER -> <<>>

NextThreads ==
    \/ /\ requests = <<>>
       /\ \E config \in LifeConfigs : \E output_values \in LifeOutputValues :
             RequestLines(config, output_values)
    \/ \E t \in Threads : \E r \in 1..Len(requests) : \E op \in ThreadOps :
          CallBegin(t, r, op, ThreadArgs(op))
    \/ \E t \in Threads : ActRelease(t)
    \/ \E t \in Threads : FinishRelease(t)
    \/ \E t \in Threads : ActGetValues(t)
    \/ \E t \in Threads : ActSetValues(t)

SpecThreads == Init /\ [][NextThreads]_vars

\* The requests of the edge event tests: both edges on lines 1 and 3, rising
\* edges on line 0 next to a line without edge detection.
EdgeConfigs ==
    {<<Entry(FALSE, <<I(1), I(3)>>, Some(SettingsEdge("BOTH")))>>,
     <<Entry(TRUE, <<I(0)>>, Some(SettingsEdge("RISING"))),
       Entry(TRUE, <<I(2)>>, Some(SettingsIn))>>,
     <<Entry(TRUE, <<I(2)>>, Some([SettingsOut EXCEPT !.edge_detection = "BOTH"]))>>}

\* One request with edge detection, level changes on the lines of the chip,
\* and the request's events polled and read, one, two or all at a time.
NextEdge ==
    \/ /\ requests = <<>>
       /\ \E config \in EdgeConfigs : RequestLines(config, <<>>)
    \/ \E o \in Offsets : ExtEdge(o)
    \/ \E r \in 1..Len(requests) : WaitEdgeEvents(r)
    \/ \E r \in 1..Len(requests) : \E max_events \in {None, Some(1), Some(2)} :
          ReadEdgeEvents(r, max_events)
    \/ \E r \in 1..Len(requests) : Release(r, "release")

SpecEdge == Init /\ [][NextEdge]_vars

\* The timeouts of a wait: none, zero, a timedelta of one tick, a float of
\* MaxWait ticks.
Timeouts == {None, Seconds(0), TimeDelta(1), Seconds(MaxWait)}

\* A chip with line 1 watched and one request with edge detection: waits
\* for info events and for edge events with every timeout, while lines
\* change level; between two waits the caller reads the events, releases
\* the request or closes the chip.
NextWait ==
    \/ /\ \A t \in Threads : pc[t].stage = "idle"
       /\ \/ /\ requests = <<>>
             /\ RequestLines(<<Entry(FALSE, <<I(1), I(3)>>,
                                     Some(SettingsEdge("BOTH")))>>, <<>>)
          \/ ChipLineInfo("watch_line_info", I(1))
          \/ \E r \in 1..Len(requests) : ReadEdgeEvents(r, None)
          \/ ChipReadInfoEvent
          \/ \E r \in 1..Len(requests) : Release(r, "release")
          \/ ChipClose
    \/ \E o \in {1, 2} : ExtEdge(o)
    \/ \E r \in 1..Len(requests) : \E timeout \in Timeouts :
          WaitEdgeEventsBegin(1, r, timeout)
    \/ \E timeout \in Timeouts : WaitInfoEventBegin(1, timeout)
    \/ PollFdReturn(1)
    \/ Tick

\* The clock advances and a select that can return does.
SpecWait ==
    /\ Init
    /\ [][NextWait]_vars
    /\ WF_vars(Tick)
    /\ WF_vars(PollFdReturn(1))

\* The lists given to get_values: the empty list, single lines, a name that was not
\* requested, an offset that was not requested, mixed lists.
LifeLines ==
    {<<>>, <<I(0)>>, <<I(2)>>, <<S(<<"f">>)>>, <<S(<<"0">>)>>,
     <<I(3), S(<<"f">>)>>, <<S(<<"f">>), I(0)>>}

\* Arguments of set_values.
LifeValues ==
    {<<OV(I(0), "ACTIVE")>>,
     <<OV(S(<<"f">>), "ACTIVE"), OV(I(1), "INACTIVE")>>,
     <<OV(I(2), "ACTIVE")>>,
     <<OV(S(<<"0">>), "ACTIVE")>>,
     <<OV(I(1), "ACTIVE"), OV(S(<<"f", "f">>), "ACTIVE")>>,
     <<OV(I(3), "ACTIVE")>>}

\* Arguments of reconfigure_lines.
LifeReconfigs ==
    {<<Entry(TRUE, <<I(0)>>, Some(SettingsIn))>>,
     <<Entry(FALSE, <<I(0), I(2)>>, Some(SettingsIn))>>,
     <<Entry(TRUE, <<S(<<"0">>)>>, Some(SettingsIn))>>,
     <<Entry(TRUE, <<I(1)>>, None), Entry(TRUE, <<I(3)>>, Some(SettingsOut))>>}

\* The life of one chip and the one request made on it: any sequence of
\* calls on the chip and on the request.
Next ==
    \/ /\ requests = <<>>
       /\ \E config \in LifeConfigs : \E output_values \in LifeOutputValues :
             RequestLines(config, output_values)
    \/ ChipClose
    \/ \E r \in 1..Len(requests) : \E op \in {"release", "__exit__"} :
          Release(r, op)
    \/ \E r \in 1..Len(requests) :
       \E lines \in {None} \cup {Some(l) : l \in LifeLines} :
          GetValues(r, "get_values", lines)
    \/ \E r \in 1..Len(requests) : \E line \in {I(0), S(<<"f">>), S(<<"0">>)} :
          GetValues(r, "get_value", Some(<<line>>))
    \/ \E r \in 1..Len(requests) : \E values \in LifeValues :
          SetValues(r, "set_values", values)
    \/ \E r \in 1..Len(requests) : \E value \in {"ACTIVE", "INACTIVE"} :
          SetValues(r, "set_value", <<OV(I(1), value)>>)
    \/ \E r \in 1..Len(requests) : \E config \in LifeReconfigs :
          ReconfigureLines(r, config)
    \/ \E r \in 1..Len(requests) : \E op \in ReadOps : ReadRequest(r, op)
    \/ \E r \in 1..Len(requests) : WaitEdgeEvents(r)
    \/ \E r \in 1..Len(requests) : ReadEdgeEvents(r, None)

Spec == Init /\ [][Next]_vars

(***************************************************************************)
(* Vocabulary of the claims.                                               *)
(***************************************************************************)
\* The identifiers of a config in iteration order, groups expanded in place.
FlatIds(config) == Flatten([j \in 1..Len(config) |-> config[j].ids])

\* What each identifier resolves to on the open chip.
Resolutions(ids) ==
    [i \in 1..Len(ids) |-> LineOffsetFromId(TRUE, ids[i], "none")]

SetMax(X) == CHOOSE x \in X : \A y \in X : x >= y

\* The LineRequest the last call was made on or returned.
LastRequest == requests[last.rid]

RequestSucceeded == last.op = "request_lines" /\ last.ok

(***************************************************************************)
(* C1.  Chip.request_lines never succeeds on a config in which two         *)
(* flattened identifiers resolve to the same offset, in one group or in    *)
(* two, by offset twice or by a name and the offset it names: when         *)
(* resolution reaches the second of them (everything before it resolved    *)
(* and no earlier offset repeated) the call raises ValueError naming that  *)
(* offset.  A request that is built holds pairwise distinct offsets, each  *)
(* configured by exactly one block.                                        *)
(***************************************************************************)
C1_RepeatedOffsetRejected ==
    last.op = "request_lines" =>
        LET ids == FlatIds(last.config)
            res == Resolutions(ids)
            keys == Resolutions([k \in 1..Len(last.output_values) |->
                                    last.output_values[k].line])
            Repeats(j) == \E i \in 1..(j - 1) :
                             res[i].ok /\ res[j].ok /\ res[i].val = res[j].val
            offs == ConfigOffsets(last.line_cfg)
        IN  /\ (\E j \in 1..Len(ids) : Repeats(j)) => ~last.ok
            /\ \A j \in 1..Len(ids) :
                  ( /\ Repeats(j)
                    /\ \A k \in 1..j : res[k].ok /\ res[k].val \in Offsets
                    /\ \A k \in 1..(j - 1) : ~Repeats(k)
                    /\ \A k \in 1..Len(keys) : keys[k].ok )
                  => /\ last.err = "ValueError"
                     /\ last.msg = "repeats"
                     /\ last.num = res[j].val
            /\ last.ok =>
                  /\ \A i, j \in 1..Len(offs) : i # j => offs[i] # offs[j]
                  /\ LastRequest.offsets = offs
                  /\ \A o \in Range(offs) :
                        Cardinality({b \in 1..Len(last.line_cfg.blocks) :
                            o \in Range(last.line_cfg.blocks[b].offsets)}) = 1

\* A name in one group and the offset it names in another are refused.
C1_Witness ==
    /\ last.op = "request_lines"
    /\ ~last.ok
    /\ last.err = "ValueError"
    /\ last.msg = "repeats"
    /\ last.num = 0
    /\ Len(last.config) = 2
    /\ FlatIds(last.config) = <<S(<<"f">>), I(1), I(0)>>

(***************************************************************************)
(* C2.  After a successful request_lines, LineRequest.lines is the         *)
(* config's identifiers flattened in iteration order, each in its original *)
(* int or str form, and LineRequest.offsets lists the offsets they resolve *)
(* to in the same order: both have num_lines entries.                      *)
(***************************************************************************)
C2_LinesAndOffsetsInOrder ==
    RequestSucceeded =>
        LET ids == FlatIds(last.config)
            res == Resolutions(ids)
        IN  /\ LastRequest.lines = ids
            /\ Len(LastRequest.offsets) = Len(ids)
            /\ \A i \in 1..Len(ids) :
                  res[i].ok /\ LastRequest.offsets[i] = res[i].val

\* {("f", 3): ..., 1: ...}: a name first, a group and a single key.
C2_Witness ==
    /\ RequestSucceeded
    /\ Len(last.config) = 2
    /\ LastRequest.lines = <<S(<<"f">>), I(3), I(1)>>
    /\ LastRequest.offsets = <<0, 3, 1>>

(***************************************************************************)
(* C3.  Chip.line_offset_from_id on a str of an open chip returns the      *)
(* result of the chip's name lookup whenever the lookup succeeds, also for *)
(* a str that reads as a decimal offset.  Only when the lookup fails with  *)
(* ENOENT is the str read as a base-10 int, and the outcome is then that   *)
(* of the same call on this int; a str that is no int re-raises ENOENT;    *)
(* any other failure of the lookup is raised as it is.                     *)
(***************************************************************************)
C3_NameLookupFirst ==
    (last.op = "line_offset_from_id" /\ last.id.t = "str" /\ chipOpen) =>
        LET lookup == ExtLineOffsetFromId(last.id.s, last.fault)
            asInt == LineOffsetFromId(TRUE, I(PyInt(last.id.s)), "none")
        IN  IF lookup.ok
            THEN last.ok /\ last.num = lookup.val
            ELSE IF lookup.err # "ENOENT"
            THEN ~last.ok /\ last.err = lookup.err
            ELSE IF ~IsIntLiteral(last.id.s)
            THEN ~last.ok /\ last.err = "ENOENT"
            ELSE /\ last.ok = asInt.ok
                 /\ last.err = asInt.err
                 /\ last.msg = asInt.msg
                 /\ last.num = asInt.val

\* "0" names line 2: the name wins over the offset it spells.
C3_Witness ==
    /\ last.op = "line_offset_from_id"
    /\ chipOpen
    /\ last.id = S(<<"0">>)
    /\ last.ok
    /\ last.num = 2

(***************************************************************************)
(* C4.  Chip.line_offset_from_id on an int of an open chip succeeds, with  *)
(* the int itself, exactly when 0 <= offset < num_lines, and fails with    *)
(* the out-of-range ValueError for every other int, negative ones          *)
(* included.                                                               *)
(***************************************************************************)
C4_IntOffsetInRange ==
    (last.op = "line_offset_from_id" /\ last.id.t = "int" /\ chipOpen) =>
        IF 0 <= last.id.n /\ last.id.n < NumLines
        THEN last.ok /\ last.num = last.id.n
        ELSE ~last.ok /\ last.err = "ValueError" /\ last.msg = "out of range"

(***************************************************************************)
(* C5.  A LineRequest is live from its creation until release() and        *)
(* released ever after: a live request stops being live only by a          *)
(* successful release() (or __exit__), a released one never becomes live,  *)
(* and every call on a released request - get_value(s), set_value(s),      *)
(* reconfigure_lines, wait_edge_events, read_edge_events, fileno,          *)
(* __enter__, the properties, and release() again - raises                 *)
(* RequestReleasedError.                                                   *)
(***************************************************************************)
C5_ReleasedForever ==
    [][\A r \in 1..Len(requests) :
          /\ Len(requests') >= Len(requests)
          /\ ~requests[r].live => ~requests'[r].live
          /\ (requests[r].live /\ ~requests'[r].live) =>
                /\ last'.op \in {"release", "__exit__"}
                /\ last'.rid = r
                /\ last'.ok
          /\ (requests[r].live /\ last'.rid = r
                /\ last'.op \in {"release", "__exit__"}) =>
                last'.ok /\ ~requests'[r].live
          /\ (~requests[r].live /\ last'.rid = r) =>
                ~last'.ok /\ last'.err = "RequestReleasedError"]_vars

\* release() on a released request raises.
C5_Witness ==
    /\ last.op = "release"
    /\ last.rid = 1
    /\ ~requests[1].live
    /\ ~last.ok
    /\ last.err = "RequestReleasedError"

\* The settings a reconfigure_lines config supplies for offset o of the
\* request: those of the last identifier that stands for o, or None.
SuppliedTo(req, config, o) ==
    LET items == config_iter(config)
        hits == {i \in 1..Len(items) :
                    LET r == LineToOffset(req, items[i].line)
                    IN  r.ok /\ r.val = o}
    IN  IF hits = {} THEN None ELSE items[SetMax(hits)].settings

\* The identifiers of a reconfigure_lines config that are not part of the
\* request, in config order.
Offending(req, config) ==
    SelectSeq(FlatIds(config),
              LAMBDA id : IF id.t = "int"
                          THEN id.n \notin Range(req.offsets)
                          ELSE id.s \notin DOMAIN req.name_map)

(***************************************************************************)
(* C6.  A successful LineRequest.reconfigure_lines leaves a requested line *)
(* as it was when the config has no entry for the line or maps it to None: *)
(* the line keeps its direction, drive and active_low.  A line given       *)
(* settings that are not None has these settings after the call.           *)
(***************************************************************************)
C6_OmittedLinesUnchanged ==
    [][(last'.op = "reconfigure_lines" /\ last'.ok /\ last' # last) =>
          \A i \in 1..Len(requests[last'.rid].offsets) :
             LET o == requests[last'.rid].offsets[i]
                 s == SuppliedTo(requests[last'.rid], last'.config, o)
             IN  IF s = None
                 THEN kset'[o] = kset[o]
                 ELSE kset'[o] = LineSettingsToExt(s[1])]_vars

(***************************************************************************)
(* C7.  LineRequest.reconfigure_lines on a live request, given identifiers *)
(* that are not part of the request, does not fail: it emits one warning   *)
(* for each such identifier, naming it, and the lines of the request that  *)
(* the config gives settings to have these settings after the call.        *)
(***************************************************************************)
C7_ExtraIdentifiersWarn ==
    (/\ last.op = "reconfigure_lines"
     /\ LastRequest.live
     /\ Offending(LastRequest, last.config) # <<>>) =>
        /\ last.ok
        /\ last.warnings = Offending(LastRequest, last.config)
        /\ \A i \in 1..Len(LastRequest.offsets) :
              LET o == LastRequest.offsets[i]
                  s == SuppliedTo(LastRequest, last.config, o)
              IN  s # None => kset[o] = LineSettingsToExt(s[1])

\* The chip names of the lines requested by offset, and the names requested.
NamesByOffset(req) ==
    {LineName(req.offsets[i]) :
        i \in {j \in 1..Len(req.lines) : req.lines[j].t = "int"}} \ {<<>>}

NamesRequested(req) ==
    {req.lines[i].s : i \in {j \in 1..Len(req.lines) : req.lines[j].t = "str"}}

(***************************************************************************)
(* C8.  After a successful request_lines, a chip-side name that no         *)
(* identifier of the config spells is in the request's name map exactly    *)
(* when some line requested by offset carries it, and is then bound to the *)
(* first such offset in request order: later lines of the same name do not *)
(* replace the entry, and a line without a name adds none.                 *)
(***************************************************************************)
C8_FirstOffsetKeepsName ==
    RequestSucceeded =>
        LET req == LastRequest
            at(name) == {i \in 1..Len(req.lines) :
                            /\ req.lines[i].t = "int"
                            /\ LineName(req.offsets[i]) = name}
        IN  /\ DOMAIN req.name_map = NamesByOffset(req) \cup NamesRequested(req)
            /\ \A name \in NamesByOffset(req) \ NamesRequested(req) :
                  req.name_map[name] = req.offsets[SetMin(at(name))]

\* Lines 1 and 0 are both named "f", line 3 has no name: (1, 3, 0).
C8_Witness ==
    /\ RequestSucceeded
    /\ LastRequest.lines = <<I(1), I(3), I(0)>>
    /\ DOMAIN LastRequest.name_map = {<<"f">>}
    /\ LastRequest.name_map[<<"f">>] = 1

(***************************************************************************)
(* C9.  After a successful request_lines, every identifier given as a str  *)
(* is in the request's name map, bound to the offset the str resolved to,  *)
(* wherever lines of the same name requested by offset stand in the        *)
(* config: before it (their entry is overwritten) or after it (they do not *)
(* overwrite it).                                                          *)
(***************************************************************************)
C9_SuppliedNameBound ==
    RequestSucceeded =>
        \A i \in 1..Len(LastRequest.lines) :
            LastRequest.lines[i].t = "str" =>
                /\ LastRequest.lines[i].s \in DOMAIN LastRequest.name_map
                /\ LastRequest.name_map[LastRequest.lines[i].s] =
                       LastRequest.offsets[i]

\* (1, "f"): line 1 enters the map as "f" first, the str "f" (line 0) then
\* takes the entry.
C9_Witness ==
    /\ RequestSucceeded
    /\ LastRequest.lines = <<I(1), S(<<"f">>)>>
    /\ LastRequest.offsets = <<1, 0>>
    /\ LastRequest.name_map[<<"f">>] = 0

\* The value output_values gives for offset o: that of the last key that
\* resolves to o, INACTIVE when there is none.
OutputValueFor(output_values, o) ==
    LET hits == {k \in 1..Len(output_values) :
                    LET r == LineOffsetFromId(TRUE, output_values[k].line, "none")
                    IN  r.ok /\ r.val = o}
    IN  IF hits = {} THEN "INACTIVE" ELSE output_values[SetMax(hits)].value

(***************************************************************************)
(* C10.  When request_lines is given a non-empty output_values and hands a *)
(* line config on some lines to the collaborator, the config's flat vector *)
(* of output values has one entry for each requested offset, in request    *)
(* order: the value output_values gives for the offset, its keys resolved  *)
(* as the identifiers of the config are, or INACTIVE when output_values    *)
(* has no key for the offset.                                              *)
(***************************************************************************)
C10_GlobalOutputValues ==
    (/\ last.op = "request_lines"
     /\ last.submitted
     /\ last.output_values # <<>>
     /\ ConfigOffsets(last.line_cfg) # <<>>) =>
        LET offsets == ConfigOffsets(last.line_cfg) IN
        /\ last.line_cfg.output_values # None
        /\ Len(last.line_cfg.output_values[1]) = Len(offsets)
        /\ \A i \in 1..Len(offsets) :
              last.line_cfg.output_values[1][i] =
                  OutputValueFor(last.output_values, offsets[i])

\* {3: ACTIVE, "f": ACTIVE} on lines (3, 1, 0): the key "f" stands for
\* line 0, line 1 has no key.
C10_Witness ==
    /\ RequestSucceeded
    /\ Len(last.output_values) = 2
    /\ last.output_values[2].line = S(<<"f">>)
    /\ LastRequest.offsets = <<3, 1, 0>>
    /\ last.line_cfg.output_values = Some(<<"ACTIVE", "INACTIVE", "ACTIVE">>)

\* The settings a config entry stands for: its value, or a LineSettings of
\* defaults when the value is None.
EntrySettings(settings) ==
    IF settings = None
    THEN [direction |-> "AS_IS", edge_detection |-> "NONE",
          drive |-> "PUSH_PULL", active_low |-> FALSE,
          output_value |-> "INACTIVE"]
    ELSE settings[1]

(***************************************************************************)
(* C11.  When request_lines is given no output_values, or an empty one,    *)
(* the line config it hands to the collaborator carries no vector of       *)
(* output values, and after a successful request every line requested as   *)
(* an output is driven to the output_value of its own LineSettings.        *)
(***************************************************************************)
C11_NoVectorWithoutOutputValues ==
    (/\ last.op = "request_lines"
     /\ last.submitted
     /\ last.output_values = <<>>) =>
        LET items == config_iter(last.config) IN
        /\ last.line_cfg.output_values = None
        /\ last.ok =>
              \A i \in 1..Len(items) :
                 LET s == EntrySettings(items[i].settings)
                 IN  s.direction = "OUTPUT" =>
                        kval[LastRequest.offsets[i]] = s.output_value

\* {(1, 3): out} and no output_values: lines 1 and 3 are driven ACTIVE, the
\* output_value of their settings.
C11_Witness ==
    /\ RequestSucceeded
    /\ last.output_values = <<>>
    /\ LastRequest.offsets = <<1, 3>>
    /\ last.line_cfg.output_values = None
    /\ kval[1] = "ACTIVE"
    /\ kval[3] = "ACTIVE"

\* The resolved offsets of the identifiers of one config entry.
EntryOffsets(entry) ==
    [i \in 1..Len(entry.ids) |->
        LineOffsetFromId(TRUE, entry.ids[i], "none").val]

(***************************************************************************)
(* C12 as stated.  request_lines adds one block per config entry: there    *)
(* are as many blocks as keys of config, and block j holds the resolved    *)
(* offsets of entry j, in group order, with the settings of entry j.       *)
(***************************************************************************)
C12_OneBlockPerEntry ==
    (last.op = "request_lines" /\ last.submitted) =>
        /\ Len(last.line_cfg.blocks) = Len(last.config)
        /\ \A j \in 1..Len(last.config) :
              /\ last.line_cfg.blocks[j].offsets = EntryOffsets(last.config[j])
              /\ last.line_cfg.blocks[j].settings =
                     LineSettingsToExt(EntrySettings(last.config[j].settings))

(***************************************************************************)
(* C12 amended.  request_lines adds one block per identifier of the        *)
(* flattened config, in iteration order: there are as many blocks as       *)
(* identifiers, and block i holds the one offset identifier i resolved to, *)
(* with the settings of the entry the identifier belongs to (the default   *)
(* LineSettings when the entry's value is None).                           *)
(***************************************************************************)
C12_OneBlockPerIdentifier ==
    (last.op = "request_lines" /\ last.submitted) =>
        LET items == config_iter(last.config) IN
        /\ Len(last.line_cfg.blocks) = Len(items)
        /\ \A i \in 1..Len(items) :
              /\ last.line_cfg.blocks[i].offsets =
                     <<LineOffsetFromId(TRUE, items[i].line, "none").val>>
              /\ last.line_cfg.blocks[i].settings =
                     LineSettingsToExt(EntrySettings(items[i].settings))

\* {(1, "f"): out, 3: None}: two entries, three blocks.
C12_Witness ==
    /\ last.op = "request_lines"
    /\ last.submitted
    /\ Len(last.config) = 2
    /\ Len(last.line_cfg.blocks) = 3
    /\ last.line_cfg.blocks[1] =
           [offsets |-> <<1>>, settings |-> LineSettingsToExt(SettingsOut)]
    /\ last.line_cfg.blocks[2] =
           [offsets |-> <<0>>, settings |-> LineSettingsToExt(SettingsOut)]
    /\ last.line_cfg.blocks[3] =
           [offsets |-> <<3>>, settings |-> LineSettingsToExt(DefaultLineSettings)]

\* The identifiers a get_values call reads: its argument, or the lines of
\* the request when the argument is None or empty.
LinesRead(req, lines) == IF lines = <<>> THEN req.lines ELSE lines

\* The offset an identifier stands for in a request: an int is the offset,
\* a name is looked up in the name map of the request.
OffsetOfLine(req, line) ==
    IF line.t = "int" THEN line.n ELSE req.name_map[line.s]

GetOps == {"get_values", "get_value"}

SetOps == {"set_values", "set_value"}

(***************************************************************************)
(* C13.  A successful LineRequest.get_values without identifiers (None or  *)
(* an empty list) reads the lines the request was made with, in their      *)
(* order; with identifiers it reads these.  The result has one value per   *)
(* identifier read, and value i is the value of the line identifier i      *)
(* stands for: an int is the offset, a name goes through the name map.     *)
(***************************************************************************)
C13_ValuesInOrder ==
    (last.op \in GetOps /\ last.ok) =>
        LET req == LastRequest
            lines == LinesRead(req, last.ids)
        IN  /\ Len(last.rvals) = Len(lines)
            /\ \A i \in 1..Len(lines) :
                  /\ lines[i].t = "str" => lines[i].s \in DOMAIN req.name_map
                  /\ last.rvals[i] = kval[OffsetOfLine(req, lines[i])]

\* get_values([3, "f"]) on the request {(1, "f"): out, 3: None} with line 0
\* ("f") driven ACTIVE and line 3 not.
C13_Witness ==
    /\ last.op = "get_values"
    /\ last.ok
    /\ last.ids = <<I(3), S(<<"f">>)>>
    /\ last.rvals = <<"INACTIVE", "ACTIVE">>

\* get_values() on the same request: the three lines in request order.
C13_WitnessAll ==
    /\ last.op = "get_values"
    /\ last.ok
    /\ last.ids = <<>>
    /\ LastRequest.lines = <<I(1), S(<<"f">>), I(3)>>
    /\ last.rvals = <<"ACTIVE", "ACTIVE", "INACTIVE">>

\* The identifiers of a get or set call on a request.
IdsOfCall(call) ==
    IF call.op \in GetOps THEN call.ids
    ELSE [i \in 1..Len(call.values) |-> call.values[i].line]

UnknownName(req, line) == line.t = "str" /\ line.s \notin DOMAIN req.name_map

ForeignOffset(req, line) == line.t = "int" /\ line.n \notin Range(req.offsets)

(***************************************************************************)
(* C14.  get_value(s) and set_value(s) on a live request raise ValueError  *)
(* when an identifier is a name that is not in the name map of the request *)
(* (also when the chip has a line of this name) or an int that is not an   *)
(* offset of the request; the values of the lines are then unchanged, and  *)
(* a name that is not in the name map fails before the collaborator is     *)
(* called.  No call changes the value of a line outside the request.       *)
(***************************************************************************)
C14_ForeignLinesRejected ==
    [][(last'.op \in GetOps \cup SetOps /\ requests[last'.rid].live) =>
          LET req == requests[last'.rid]
              ids == IdsOfCall(last')
          IN  /\ (\E i \in 1..Len(ids) :
                     UnknownName(req, ids[i]) \/ ForeignOffset(req, ids[i])) =>
                    /\ ~last'.ok
                    /\ last'.err = "ValueError"
                    /\ kval' = kval
              /\ (\E i \in 1..Len(ids) : UnknownName(req, ids[i])) =>
                    ~last'.submitted
              /\ \A o \in Offsets \ Range(req.offsets) : kval'[o] = kval[o]]_vars

\* set_values({"0": ACTIVE}): the chip has a line named "0" (line 2), the
\* request has not.
C14_Witness ==
    /\ last.op = "set_values"
    /\ LastRequest.live
    /\ last.values = <<OV(S(<<"0">>), "ACTIVE")>>
    /\ ~last.ok
    /\ last.err = "ValueError"
    /\ ~last.submitted

\* The value written to offset o by a set_values mapping: that of the last
\* key standing for o.
ValueWritten(req, values, o) ==
    LET hits == {k \in 1..Len(values) : OffsetOfLine(req, values[k].line) = o}
    IN  values[SetMax(hits)].value

(***************************************************************************)
(* C15.  Closing the chip leaves its LineRequest as it is: the request     *)
(* stays live and its lines stay requested.  On a live request whose chip  *)
(* is closed no call fails for the chip being closed: release() succeeds,  *)
(* get_value(s) of lines of the request returns their values,              *)
(* set_value(s) of output lines of the request writes them, and            *)
(* reconfigure_lines with identifiers of the request is submitted.         *)
(***************************************************************************)
C15_RequestSurvivesChip ==
    [][/\ (chipOpen /\ ~chipOpen') =>
             /\ requests' = requests
             /\ owner' = owner
             /\ kset' = kset
             /\ kval' = kval
       /\ (/\ ~chipOpen
           /\ last'.rid \in 1..Len(requests)
           /\ requests[last'.rid].live
           /\ last'.op \notin {"close", "request_lines"}) =>
             LET req == requests[last'.rid]
                 ids == IdsOfCall(last')
                 known == \A i \in 1..Len(ids) :
                             /\ ~UnknownName(req, ids[i])
                             /\ ~ForeignOffset(req, ids[i])
             IN  /\ ~chipOpen'
                 /\ last'.err # "ChipClosedError"
                 /\ last'.op \in {"release", "__exit__"} =>
                       last'.ok /\ ~requests'[last'.rid].live
                 /\ last'.op \notin {"release", "__exit__"} =>
                       requests' = requests
                 /\ (last'.op \in GetOps /\ known) =>
                       /\ last'.ok
                       /\ Len(last'.rvals) = Len(LinesRead(req, ids))
                       /\ \A i \in 1..Len(ids) :
                             last'.rvals[i] = kval[OffsetOfLine(req, ids[i])]
                 /\ (/\ last'.op \in SetOps
                     /\ known
                     /\ \A i \in 1..Len(ids) :
                           kset[OffsetOfLine(req, ids[i])].direction = "OUTPUT") =>
                       /\ last'.ok
                       /\ \A i \in 1..Len(ids) :
                             LET o == OffsetOfLine(req, ids[i])
                             IN  kval'[o] = ValueWritten(req, last'.values, o)
                 /\ (/\ last'.op = "reconfigure_lines"
                     /\ Offending(req, last'.config) = <<>>) =>
                       last'.ok /\ last'.submitted]_vars

\* request_lines, chip.close(), set_values({0: ACTIVE}) on the output line
\* 0, get_values([0]): the request reads what it wrote.
C15_Witness ==
    /\ ~chipOpen
    /\ last.op = "get_values"
    /\ LastRequest.live
    /\ last.ids = <<I(0)>>
    /\ last.ok
    /\ last.rvals = <<"ACTIVE">>
    /\ kset[0].direction = "OUTPUT"

(***************************************************************************)
(* C16.  gpiod.request_lines opens a chip, requests the lines on it and    *)
(* returns the request; when the call is over the chip it opened is        *)
(* closed, whether the call returned a request or raised (the path, an     *)
(* identifier, a repeat, a key of output_values, the collaborator), and a  *)
(* request it returned is live and holds its lines.                        *)
(***************************************************************************)
C16_TemporaryChipClosed ==
    last.op = "gpiod.request_lines" =>
        /\ ~last.tmp_open
        /\ last.ok =>
              /\ last.rid = Len(requests)
              /\ LastRequest.live
              /\ LastRequest.lines = FlatIds(last.config)
              /\ \A i \in 1..Len(LastRequest.offsets) :
                    owner[LastRequest.offsets[i]] = last.rid
        /\ ~last.ok => requests = <<>> /\ \A o \in Offsets : owner[o] = 0

\* gpiod.request_lines(path, {(0, 1): None, "f": None}): "f" is line 0
\* again, the call raises ValueError and leaves no chip open.
C16_Witness ==
    /\ last.op = "gpiod.request_lines"
    /\ FlatIds(last.config) = <<I(0), I(1), S(<<"f">>)>>
    /\ ~last.ok
    /\ last.err = "ValueError"
    /\ ~last.tmp_open
    /\ requests = <<>>

\* The methods and properties of Chip.
ChipOps ==
    ChipReadOps \cup ChipLineOps
        \cup {"close", "read_info_event", "line_offset_from_id", "request_lines"}

(***************************************************************************)
(* C17.  A closed chip stays closed, and every call on it - close() again, *)
(* __enter__, get_info, line_offset_from_id, get_line_info,                *)
(* watch_line_info, unwatch_line_info, wait_info_event, read_info_event,   *)
(* request_lines, fileno, path, fd - raises ChipClosedError, whatever its  *)
(* arguments (also ones that would be refused on an open chip), without    *)
(* anything being asked of the collaborator and without any effect on the  *)
(* lines.                                                                  *)
(***************************************************************************)
C17_ClosedChipRefusesAll ==
    [][(/\ ~chipOpen
        /\ last'.op \in ChipOps
        /\ last'.rid = 0 \/ last'.op = "request_lines") =>
          /\ ~chipOpen'
          /\ ~last'.ok
          /\ last'.err = "ChipClosedError"
          /\ ~last'.submitted
          /\ requests' = requests
          /\ owner' = owner
          /\ kset' = kset
          /\ kval' = kval]_vars

\* get_line_info(4) on the closed chip of 4 lines: ChipClosedError, not the
\* ValueError of the offset.
C17_Witness ==
    /\ ~chipOpen
    /\ last.op = "get_line_info"
    /\ last.id = I(NumLines)
    /\ ~last.ok
    /\ last.err = "ChipClosedError"

\* A defect of the input of request_lines: an int that is no offset of the
\* chip, a str that is neither the name of a line nor the decimal form of
\* an offset of the chip, two identifiers of the config standing for one
\* line, a key of output_values that is no line.
NoLine(id) ==
    IF id.t = "int" THEN id.n \notin Offsets
    ELSE /\ \A o \in Offsets : LineName(o) # id.s
         /\ ~(AllDigits(id.s) /\ DecimalValue(id.s) \in Offsets)

LineOf(id) ==
    IF id.t = "int" THEN id.n
    ELSE IF \E o \in Offsets : LineName(o) = id.s
    THEN SetMin({o \in Offsets : LineName(o) = id.s})
    ELSE DecimalValue(id.s)

BadInput(config, output_values) ==
    LET ids == FlatIds(config) IN
    \/ \E i \in 1..Len(ids) : NoLine(ids[i])
    \/ \E k \in 1..Len(output_values) : NoLine(output_values[k].line)
    \/ \E i, j \in 1..Len(ids) : i # j /\ LineOf(ids[i]) = LineOf(ids[j])

C19_SetValuesAllOrNothing ==
    [][(last'.op \in SetOps /\ requests[last'.rid].live) =>
          LET req == requests[last'.rid]
              ids == IdsOfCall(last')
          IN  /\ (\E i \in 1..Len(ids) : UnknownName(req, ids[i])) =>
                    ~last'.ok /\ ~last'.submitted
              /\ ~last'.ok => kval' = kval
              /\ last'.ok =>
                    /\ last'.submitted
                    /\ \A o \in Offsets :
                          kval'[o] =
                              IF \E i \in 1..Len(ids) :
                                    OffsetOfLine(req, ids[i]) = o
                              THEN ValueWritten(req, last'.values, o)
                              ELSE kval[o]]_vars

\* set_values({1: ACTIVE, "ff": ACTIVE}) with the output line 1 INACTIVE:
\* "ff" is unknown, line 1 stays INACTIVE.
C19_Witness ==
    /\ last.op = "set_values"
    /\ LastRequest.live
    /\ last.values = <<OV(I(1), "ACTIVE"), OV(S(<<"f", "f">>), "ACTIVE")>>
    /\ ~last.ok
    /\ ~last.submitted
    /\ kset[1].direction = "OUTPUT"
    /\ kval[1] = "INACTIVE"

\* A str that is the name of no line of the chip.
NamesNoLine(s) == \A o \in Offsets : LineName(o) # s

(***************************************************************************)
(* C20 as stated.  Chip.line_offset_from_id on a numeric str that names no *)
(* line and whose value is no offset of the chip fails with the not-found  *)
(* error (ENOENT) of the name lookup.                                      *)
(***************************************************************************)
C20_OutOfRangeStrNotFound ==
    (/\ last.op = "line_offset_from_id"
     /\ chipOpen
     /\ last.id.t = "str"
     /\ last.fault = "none"
     /\ NamesNoLine(last.id.s)
     /\ IsIntLiteral(last.id.s)
     /\ PyInt(last.id.s) \notin Offsets) =>
        ~last.ok /\ last.err = "ENOENT"

(***************************************************************************)
(* C20 amended.  Chip.line_offset_from_id on a str of decimal digits that  *)
(* names no line and whose value is num_lines or more fails with the       *)
(* ValueError of an offset out of range, as the int of this value does:    *)
(* not with the not-found error of the lookup, and not with an offset.     *)
(***************************************************************************)
C20_OutOfRangeStrValueError ==
    (/\ last.op = "line_offset_from_id"
     /\ chipOpen
     /\ last.id.t = "str"
     /\ last.fault = "none"
     /\ NamesNoLine(last.id.s)
     /\ AllDigits(last.id.s)
     /\ DecimalValue(last.id.s) >= NumLines) =>
        /\ ~last.ok
        /\ last.err = "ValueError"
        /\ last.msg = "out of range"

\* line_offset_from_id("99") on the chip of 4 lines
C20_Witness ==
    /\ last.op = "line_offset_from_id"
    /\ chipOpen
    /\ last.id = S(<<"9", "9">>)
    /\ last.fault = "none"
    /\ ~last.ok
    /\ last.err = "ValueError"

\* The live requests that hold line o.
Holders(o) ==
    {r \in 1..Len(requests) :
        requests[r].live /\ o \in Range(requests[r].offsets)}

(***************************************************************************)
(* C21.  Whatever the order of the request_lines and release calls of the  *)
(* callers of a chip, no offset is held by two live requests.  A request   *)
(* that was built and includes an offset held by a live request fails with *)
(* EBUSY and acquires nothing: no request is added and every line keeps    *)
(* its holder.  A request none of whose offsets is held, be it because the *)
(* holder was released, succeeds and holds exactly its offsets.            *)
(***************************************************************************)
C21_RequestedLinesExclusive ==
    [][ /\ \A o \in Offsets : Cardinality(Holders(o))' <= 1
        /\ (last'.op = "request_lines" /\ last'.submitted) =>
              LET offs == Range(ConfigOffsets(last'.line_cfg)) IN
              IF \E o \in offs : Holders(o) # {}
              THEN /\ ~last'.ok
                   /\ last'.err = "EBUSY"
                   /\ requests' = requests
                   /\ \A o \in Offsets : Holders(o)' = Holders(o)
              ELSE /\ last'.ok
                   /\ Len(requests') = Len(requests) + 1
                   /\ \A o \in Offsets :
                         Holders(o)' = IF o \in offs THEN {Len(requests')}
                                       ELSE Holders(o) ]_vars

\* line 1 requested, its request released, then line 1 requested again by
\* a second request while nothing else is held
C21_Witness ==
    /\ last.op = "request_lines"
    /\ last.ok
    /\ last.rid = 2
    /\ ~requests[1].live
    /\ requests[2].live
    /\ 1 \in Range(requests[1].offsets) \cap Range(requests[2].offsets)

\* a second request refused with EBUSY while the first holds line 1
C21_WitnessBusy ==
    /\ last.op = "request_lines"
    /\ last.err = "EBUSY"
    /\ Len(requests) = 1
    /\ requests[1].live

\* What a LineRequest keeps about its lines.
Bookkeeping(req) ==
    <<req.chip_name, req.offsets, req.lines, Len(req.offsets), req.name_map>>

(***************************************************************************)
(* C22.  No call changes the bookkeeping of a LineRequest that exists:     *)
(* chip_name, offsets, lines, num_lines and the name map of every request  *)
(* are after any step what they were before it, in particular after a      *)
(* get_values, set_values or reconfigure_lines call that succeeded or      *)
(* failed, and these calls leave the handle live.  The properties offsets, *)
(* lines and num_lines of a live request read exactly these values.        *)
(***************************************************************************)
C22_BookkeepingFixed ==
    [][ /\ \A r \in 1..Len(requests) :
              /\ r \in 1..Len(requests')
              /\ Bookkeeping(requests'[r]) = Bookkeeping(requests[r])
        /\ last'.op \in GetOps \cup SetOps \cup {"reconfigure_lines"} =>
              requests' = requests
        /\ (last'.op \in {"offsets", "lines", "num_lines"} /\ last'.ok) =>
              LET req == requests[last'.rid] IN
              /\ last'.op = "lines" => last'.ids = req.lines
              /\ last'.op = "offsets" =>
                    last'.ids = [i \in 1..Len(req.offsets) |-> I(req.offsets[i])]
              /\ last'.op = "num_lines" => last'.num = Len(req.offsets) ]_vars

\* a reconfigure_lines call that succeeded on the request of (1, "f"), 3
C22_Witness ==
    /\ last.op = "reconfigure_lines"
    /\ last.ok
    /\ LastRequest.live
    /\ LastRequest.lines = <<I(1), S(<<"f">>), I(3)>>
    /\ LastRequest.offsets = <<1, 0, 3>>

\* The settings the entries of a reconfigure_lines config give to offset o
\* of a request: one element per distinct settings value, None included.
SettingsNamedFor(req, config, o) ==
    {config[j].settings : j \in {k \in 1..Len(config) :
        \E i \in 1..Len(config[k].ids) : OffsetOfLine(req, config[k].ids[i]) = o}}

(***************************************************************************)
(* C25.  A LineRequest.reconfigure_lines call that reaches the collaborator*)
(* submits exactly one settings block per requested offset, in the order   *)
(* of offsets, each block for that one offset.  The block of an offset the *)
(* config names with settings that are not None carries these settings;    *)
(* the block of an offset the config omits or maps to None carries the     *)
(* all-default LineSettings, whatever the line was set to before.          *)
(***************************************************************************)
C25_OneBlockPerRequestedOffset ==
    (last.op = "reconfigure_lines" /\ last.ok) =>
        LET req == LastRequest
            blocks == last.line_cfg.blocks
        IN  /\ last.submitted
            /\ last.line_cfg.output_values = None
            /\ Len(blocks) = Len(req.offsets)
            /\ \A i \in 1..Len(req.offsets) :
                  LET named == SettingsNamedFor(req, last.config, req.offsets[i])
                  IN  /\ blocks[i].offsets = <<req.offsets[i]>>
                      /\ named \subseteq {None} =>
                            blocks[i].settings = EntrySettings(None)
                      /\ \A s \in named :
                            (named = {s} /\ s # None) =>
                                blocks[i].settings = s[1]

\* reconfigure_lines({0: in}) on the request {(1, "f"): out, 3: None}: line 0
\* gets the input settings, the output line 1 and line 3 the defaults
C25_Witness ==
    /\ last.op = "reconfigure_lines"
    /\ last.ok
    /\ LastRequest.offsets = <<1, 0, 3>>
    /\ last.config = <<Entry(TRUE, <<I(0)>>, Some(SettingsIn))>>
    /\ Len(last.line_cfg.blocks) = 3
    /\ last.line_cfg.blocks[1].settings.direction = "AS_IS"
    /\ last.line_cfg.blocks[2].settings.direction = "INPUT"

\* Two identifiers of the config stand for the same offset of the request.
NamedTwice(req, config) ==
    LET ids == FlatIds(config) IN
    \E i, j \in 1..Len(ids) :
        i < j /\ OffsetOfLine(req, ids[i]) = OffsetOfLine(req, ids[j])

(***************************************************************************)
(* C28.  LineRequest.reconfigure_lines detects no duplicate.  A config     *)
(* whose identifiers all belong to the live request succeeds also when two *)
(* of them, in one group or in two entries, by offset twice or by a name   *)
(* and its offset, stand for the same requested offset; the block          *)
(* submitted for an offset carries the settings of the last entry, in      *)
(* iteration order, that names it (the defaults when these are None).      *)
(***************************************************************************)
C28_ReconfigureLastEntryWins ==
    (/\ last.op = "reconfigure_lines"
     /\ LastRequest.live
     /\ Offending(LastRequest, last.config) = <<>>) =>
        /\ last.ok
        /\ \A i \in 1..Len(LastRequest.offsets) :
              last.line_cfg.blocks[i].settings =
                  EntrySettings(SuppliedTo(LastRequest, last.config,
                                           LastRequest.offsets[i]))

\* reconfigure_lines({"f": in, 0: None}) on the request {(1, "f"): out,
\* 3: None}, where "f" is line 0: the call succeeds and line 0 gets the
\* defaults of the entry iterated last
C28_Witness ==
    /\ last.op = "reconfigure_lines"
    /\ last.ok
    /\ LastRequest.offsets = <<1, 0, 3>>
    /\ last.config = <<Entry(TRUE, <<S(<<"f">>)>>, Some(SettingsIn)),
                       Entry(TRUE, <<I(0)>>, None)>>
    /\ NamedTwice(LastRequest, last.config)
    /\ last.line_cfg.blocks[2].settings.direction = "AS_IS"

(***************************************************************************)
(* C27.  In every live request the name map and the two lists agree: each  *)
(* value of the name map is an offset of the request, lines and offsets    *)
(* have the same length, an int at position i of lines is offsets[i] and   *)
(* a str at position i of lines is a key of the name map bound to          *)
(* offsets[i].  Hence get_values() without an argument on a live request   *)
(* does not fail and returns the values of offsets, in order.              *)
(***************************************************************************)
C27_NameMapConsistent ==
    /\ \A r \in 1..Len(requests) :
          LET req == requests[r] IN
          req.live =>
             /\ \A name \in DOMAIN req.name_map :
                   req.name_map[name] \in Range(req.offsets)
             /\ Len(req.lines) = Len(req.offsets)
             /\ \A i \in 1..Len(req.lines) :
                   IF req.lines[i].t = "int"
                   THEN req.lines[i].n = req.offsets[i]
                   ELSE /\ req.lines[i].s \in DOMAIN req.name_map
                        /\ req.name_map[req.lines[i].s] = req.offsets[i]
    /\ (last.op = "get_values" /\ last.ids = <<>> /\ last.rid # 0) =>
          (LastRequest.live =>
              /\ last.ok
              /\ last.rvals = [i \in 1..Len(LastRequest.offsets) |->
                                  kval[LastRequest.offsets[i]]])

\* get_values() on the request of {1: None, "f": out}: line 1 is called "f"
\* on the chip, and the name "f" requested after it is line 0
C27_Witness ==
    /\ last.op = "get_values"
    /\ last.ok
    /\ last.ids = <<>>
    /\ LastRequest.live
    /\ LastRequest.lines = <<I(1), S(<<"f">>)>>
    /\ LastRequest.offsets = <<1, 0>>
    /\ LastRequest.name_map[<<"f">>] = 0
    /\ last.rvals = <<"INACTIVE", "ACTIVE">>

\* The lines the identifiers of a config stand for.
LinesOf(config) == {LineOf(FlatIds(config)[i]) : i \in 1..Len(FlatIds(config))}

\* The value the last key of output_values that stands for line o gives,
\* INACTIVE without such a key.
KeyedValue(output_values, o) ==
    LET hits == {k \in 1..Len(output_values) : LineOf(output_values[k].line) = o}
    IN  IF hits = {} THEN "INACTIVE" ELSE output_values[SetMax(hits)].value

(***************************************************************************)
(* C30.  Chip.request_lines on an open chip with a valid config of at      *)
(* least one line and an output_values all of whose keys stand for lines   *)
(* of the chip, one of them a line the config does not request: the call   *)
(* succeeds, the request holds exactly the lines of the config, the        *)
(* output-value vector has one entry per requested offset (the keyed value *)
(* or INACTIVE) and none for the other key, and the line of that key is    *)
(* neither requested nor driven nor configured.                            *)
(***************************************************************************)
C30_UnrequestedKeyIgnored ==
    (/\ last.op = "request_lines"
     /\ FlatIds(last.config) # <<>>
     /\ ~BadInput(last.config, last.output_values)
     /\ \E k \in 1..Len(last.output_values) :
           LineOf(last.output_values[k].line) \notin LinesOf(last.config)) =>
        /\ last.ok
        /\ Range(LastRequest.offsets) = LinesOf(last.config)
        /\ last.line_cfg.output_values # None
        /\ Len(last.line_cfg.output_values[1]) = Len(LastRequest.offsets)
        /\ \A i \in 1..Len(LastRequest.offsets) :
              last.line_cfg.output_values[1][i] =
                  KeyedValue(last.output_values, LastRequest.offsets[i])
        /\ \A o \in Offsets \ LinesOf(last.config) :
              /\ owner[o] = 0
              /\ kval[o] = "INACTIVE"
              /\ kset[o].direction = "AS_IS"

\* request_lines({0: out}, output_values={1: ACTIVE}): line 0 is requested
\* and driven INACTIVE, line 1 is left alone
C30_Witness ==
    /\ RequestSucceeded
    /\ last.output_values = <<OV(I(1), "ACTIVE")>>
    /\ LastRequest.offsets = <<0>>
    /\ last.line_cfg.output_values = Some(<<"INACTIVE">>)
    /\ kset[0].direction = "OUTPUT"
    /\ owner[1] = 0
    /\ kval[1] = "INACTIVE"

(***************************************************************************)
(* C29.  LineRequest.get_values given the empty list does what it does     *)
(* without an argument: on a live request it succeeds and returns one      *)
(* value per requested line, the values of offsets in request order, and   *)
(* not the empty list; on a released request it raises                     *)
(* RequestReleasedError.                                                   *)
(***************************************************************************)
C29_EmptyListReadsAll ==
    (last.op = "get_values" /\ last.ids = <<>>) =>
        IF LastRequest.live
        THEN /\ last.ok
             /\ Len(last.rvals) = Len(LastRequest.offsets)
             /\ Len(last.rvals) >= 1
             /\ \A i \in 1..Len(last.rvals) :
                   last.rvals[i] = kval[LastRequest.offsets[i]]
        ELSE last.err = "RequestReleasedError"

\* get_values([]) on the request {(1, "f"): out, 3: None}
C29_Witness ==
    /\ last.op = "get_values"
    /\ ~last.no_arg
    /\ last.ids = <<>>
    /\ last.ok
    /\ LastRequest.offsets = <<1, 0, 3>>
    /\ last.rvals = <<"ACTIVE", "ACTIVE", "INACTIVE">>

(***************************************************************************)
(* C26.  A release, get_values or set_values call reaches the request      *)
(* after its release only when it ran while another caller was inside a    *)
(* call on the handle: the check of the handle and the call of the         *)
(* collaborator are two steps, and a release by the other caller fits      *)
(* between them.  Such a call does not fail with RequestReleasedError.  A  *)
(* call that no other call overlapped never reaches a released request: on *)
(* a released handle it fails with RequestReleasedError.                   *)
(***************************************************************************)
C26_StaleOnlyWhenOverlapped ==
    /\ last.stale => ~last.alone /\ last.err # "RequestReleasedError"
    /\ last.err \in {"AttributeError", "OSError", "abort"} => last.stale
    /\ \A t \in Threads :
          (pc[t].stage = "checked" /\ pc[t].alone) =>
              /\ requests[pc[t].rid].live
              /\ StaleResults(pc[t].rid) = {}

\* get_values() passed the check, the other caller released the request,
\* and get_values then found self._req gone
C26_Witness ==
    /\ last.op = "get_values"
    /\ last.stale
    /\ last.err = "AttributeError"
    /\ ~last.alone
    /\ ~requests[last.rid].live

\* two releases: the second passed the check before the first finished
C26_WitnessRelease ==
    /\ last.op = "release"
    /\ last.stale
    /\ ~last.alone

\* The number of edges of line o among the first n a request detected.
EdgesOfLine(log, o, n) == Cardinality({j \in 1..n : log[j].line_offset = o})

(***************************************************************************)
(* C23.  The edge events read from a request are the edges it detected, in *)
(* order of occurrence and none twice: with k events read by the calls     *)
(* before, the i-th event of a read is the (k+i)-th edge detected, of that *)
(* line and type, its global sequence number is k+i - counting from 1      *)
(* across all lines of the request - and its line sequence number is the   *)
(* number of edges detected on its line up to it - counting from 1 for     *)
(* each offset.                                                            *)
(***************************************************************************)
C23_EdgeEventsInOrder ==
    (last.op = "read_edge_events" /\ last.ok) =>
        LET st == kev.req[last.rid]
            k == Len(st.log) - Len(st.queue) - Len(last.events)
        IN  /\ k >= 0
            /\ Len(last.events) >= 1
            /\ \A i \in 1..Len(last.events) :
                  LET e == last.events[i] IN
                  /\ e.line_offset = st.log[k + i].line_offset
                  /\ e.event_type = st.log[k + i].event_type
                  /\ e.global_seqno = k + i
                  /\ e.line_seqno = EdgesOfLine(st.log, e.line_offset, k + i)

\* a rising edge on line 1, then one on line 3, read one after the other:
\* the second read returns the event of line 3 with global_seqno 2 and
\* line_seqno 1
C23_Witness ==
    /\ last.op = "read_edge_events"
    /\ last.ok
    /\ kev.req[last.rid].log = <<[line_offset |-> 1, event_type |-> "RISING_EDGE"],
                                 [line_offset |-> 3, event_type |-> "RISING_EDGE"]>>
    /\ last.events = <<[event_type |-> "RISING_EDGE", line_offset |-> 3,
                        global_seqno |-> 2, line_seqno |-> 1]>>

\* An event is queued on the descriptor a wait call polls.
EventQueued(call) ==
    IF call.op = "wait_info_event" THEN kev.info > 0
    ELSE kev.req[call.rid].queue # <<>>

\* A caller is blocked in a wait with a finite timeout, with none.
Blocked(t) == pc[t].stage = "select"

(***************************************************************************)
(* C24.  A wait_edge_events or wait_info_event call that passed its check  *)
(* returns True exactly when an event is queued on its descriptor at the   *)
(* time it returns.  With a finite timeout it has then waited no longer    *)
(* than the timeout, and returns False only after the whole timeout has    *)
(* passed without an event; with timeout 0 it returns without waiting;     *)
(* without a timeout it returns only True.  A wait with a finite timeout   *)
(* always returns, and a wait without one returns once an event is queued. *)
(***************************************************************************)
C24_WaitReturnsReadiness ==
    /\ [][ \A t \in Threads :
             (Blocked(t) /\ ~Blocked(t)') =>
                /\ last'.op \in {"wait_edge_events", "wait_info_event"}
                /\ last'.ok
                /\ last'.ready = EventQueued(last')
                /\ IF last'.timeout = None
                   THEN last'.ready
                   ELSE /\ last'.waited <= last'.timeout[1].v
                        /\ ~last'.ready => last'.waited = last'.timeout[1].v
                        /\ last'.timeout[1].v = 0 => last'.waited = 0 ]_vars
    /\ \A t \in Threads :
          (Blocked(t) /\ pc[t].arg # None) ~> ~Blocked(t)
    /\ \A t \in Threads :
          (Blocked(t) /\ pc[t].arg = None /\ EventQueued(pc[t])) ~> ~Blocked(t)

\* wait_edge_events(timedelta) returned True before the timeout had passed:
\* the edge came while the caller was waiting
C24_Witness ==
    /\ last.op = "wait_edge_events"
    /\ last.ok
    /\ last.ready
    /\ last.timeout = Seconds(MaxWait)
    /\ last.waited = 1

\* wait_info_event(timeout) returned False after the whole timeout
C24_WitnessTimeout ==
    /\ last.op = "wait_info_event"
    /\ last.ok
    /\ ~last.ready
    /\ last.timeout = TimeDelta(1)
    /\ last.waited = 1
    /\ kev.watched = {1}

\* wait_edge_events() without a timeout returned
C24_WitnessBlocking ==
    /\ last.op = "wait_edge_events"
    /\ last.ok
    /\ last.ready
    /\ last.timeout = None

====
